---- MODULE Spec2Model ----
(***************************************************************************)
(* Model of the company enrichment service (enrichment_service.py):        *)
(* the ProgressTracker (durable, resumable state), and the                 *)
(* EnrichmentService orchestrator that drives the website, email and phone *)
(* phases over the input rows.                                             *)
(*                                                                         *)
(* Strings of the program are TLA+ strings drawn from small vocabularies;  *)
(* Python's None is the marker NoneStr where a string is expected and the  *)
(* number None where a timestamp is expected.  Company names are strings,  *)
(* as the mark_* signatures declare (company_name: str).                   *)
(***************************************************************************)
EXTENDS Integers, Sequences, FiniteSets, TLC

(* ------------------------------ bounds -------------------------------- *)
MaxRows == 2        \* rows of the input CSV
MaxRuns == 2        \* invocations of main() in one behaviour
MaxKills == 1       \* external terminations of the process
MaxRaises == 1      \* exceptions that escape a resolver in one behaviour
MaxOps == 4         \* direct ProgressTracker calls (tracker-level spec)
MaxCalls == 3       \* operations on one BrightDataMCP client
MaxLinks == 11      \* links extracted from one search result page
MaxResultsIn == 3   \* search results handed to _select_best_website
MaxEmails == 3      \* addresses the pattern finds in one text
MaxExecutions == 2  \* executions of an extraction on the same input
MaxPending == 21    \* records pending in one phase loop (pacing)

(* --------------------------- vocabularies ----------------------------- *)
NotFound == "Not found"
NoneStr == "<None>"
None == 0

Names == {"a", "b"}
WebsiteCol == {"", " ", NotFound, "https://in.nl"}
EmailCol == {"", "office@in.nl"}
Phases == {"website", "email", "phone"}
Modes == {"full", "websites_only", "emails_only", "phones_only"}
\* the values of --emails-only, --phones-only, --websites-only on a command line
OnlyFlags == [{"emails_only", "phones_only", "websites_only"} -> BOOLEAN]
Outcomes == {"found", "empty", "raise"}
MarkValues == {"", NotFound, "v"}
Rows == [Name : Names, Website : WebsiteCol, Email : EmailCol]

VARIABLES
    companies,   \* EnrichmentService.companies: the rows of the input CSV
    state,       \* ProgressTracker.state of the live process
    file,        \* the progress file on disk
    clock,       \* datetime.now()
    pc,          \* position of the process
    ret,         \* where control continues after the pending json.dump
    mode,        \* which of the *_only flags the run was started with
    dry_run,
    todo,        \* phases run() has still to call
    phase,       \* the enrich_* method being executed
    pending,     \* its pending list (indices into companies)
    idx,         \* position of the loop in pending
    result,      \* value returned by the resolver for the current record
    raised,      \* the try block of the current record raised
    exported,    \* the rows of the output CSV (none while it was never written)
    runs, kills, ops,
    raises,      \* exceptions that escaped a resolver so far
    exit_status, \* how the last process ended (none before the first has ended)
    call,        \* a component called on its own: its arguments, locals and result
    attempted,   \* history: names whose outcome of a phase was durably recorded
    snap         \* history: mappings and counters at the end of the last completed run

vars == <<companies, state, file, clock, pc, ret, mode, dry_run, todo, phase,
          pending, idx, result, raised, exported, runs, kills, ops, raises,
          exit_status, call, attempted, snap>>

(* ------------------------- Python helpers ----------------------------- *)
Truthy(x) == x # "" /\ x # NoneStr
Or2(a, b) == IF Truthy(a) THEN a ELSE b
Strip(s) == IF s = " " THEN "" ELSE s
EmptyMap == [n \in {} |-> ""]
Get(m, k) == IF k \in DOMAIN m THEN m[k] ELSE NoneStr
Put(m, k, v) == [n \in DOMAIN m \cup {k} |-> IF n = k THEN v ELSE m[n]]

(* ------------------------- ProgressTracker ---------------------------- *)
DefaultState ==
    [current_phase |-> "website",
     processed_emails |-> EmptyMap,
     processed_phones |-> EmptyMap,
     processed_websites |-> EmptyMap,
     failures |-> <<>>,
     started_at |-> None,
     last_updated |-> None,
     stats |-> [emails_found |-> 0, emails_not_found |-> 0,
                phones_found |-> 0, phones_not_found |-> 0,
                websites_found |-> 0, websites_not_found |-> 0]]

\* json.dump of a dict: a JSON object is its list of members
JsonObject(m) == {<<k, m[k]>> : k \in DOMAIN m}
\* json.load of a JSON object: the dict of its members
JsonParseObject(o) ==
    [k \in {p[1] : p \in o} |-> (CHOOSE p \in o : p[1] = k)[2]]

\* the keys of the state dict whose values are dicts keyed by company name
MapKeys == {"processed_emails", "processed_phones", "processed_websites"}

\* json.dump(self.state): whatever keys the dict has are written
JsonDump(s) ==
    [k \in DOMAIN s |-> IF k \in MapKeys THEN JsonObject(s[k]) ELSE s[k]]

\* json.load of a document: whatever keys the document has are returned
JsonLoad(d) ==
    [k \in DOMAIN d |-> IF k \in MapKeys THEN JsonParseObject(d[k]) ELSE d[k]]

\* the file while open(progress_file, 'w') has truncated it and json.dump
\* has not finished: not a parseable document
PartialFile == [exists |-> TRUE, kind |-> "partial", doc |-> JsonDump(DefaultState)]
NoFile == [exists |-> FALSE, kind |-> "partial", doc |-> JsonDump(DefaultState)]
WrittenFile(s) == [exists |-> TRUE, kind |-> "json", doc |-> JsonDump(s)]

\* mutant: the loader never reads the file
_load_state_Fresh(f) == DefaultState

_load_state(f) ==
    IF f.exists /\ f.kind = "json" THEN JsonLoad(f.doc) ELSE DefaultState

\* save, up to and including open(..., 'w'): the timestamp is set in memory
save(s, now) == Put(s, "last_updated", now)

mark_email_processed(s, company_name, email) ==
    [s EXCEPT !.processed_emails = Put(@, company_name, email),
              !.stats = IF Truthy(email) /\ email # NotFound
                        THEN [@ EXCEPT !.emails_found = @ + 1]
                        ELSE [@ EXCEPT !.emails_not_found = @ + 1]]

mark_phone_processed(s, company_name, phone) ==
    [s EXCEPT !.processed_phones = Put(@, company_name, phone),
              !.stats = IF Truthy(phone) /\ phone # NotFound
                        THEN [@ EXCEPT !.phones_found = @ + 1]
                        ELSE [@ EXCEPT !.phones_not_found = @ + 1]]

mark_website_processed(s, company_name, website) ==
    [s EXCEPT !.processed_websites = Put(@, company_name, website),
              !.stats = IF Truthy(website) /\ website # NotFound
                        THEN [@ EXCEPT !.websites_found = @ + 1]
                        ELSE [@ EXCEPT !.websites_not_found = @ + 1]]

\* mutant: logging a failure also counts the record as an email not found
mark_failure_Counting(s, company_name, error, now) ==
    [s EXCEPT !.failures = Append(@, [company |-> company_name,
                                      error |-> error,
                                      timestamp |-> now]),
              !.stats.emails_not_found = @ + 1]

\* mutant: the failure is not logged
mark_failure_NoAppend(s, company_name, error, now) == s

mark_failure(s, company_name, error, now) ==
    [s EXCEPT !.failures = Append(@, [company |-> company_name,
                                      error |-> error,
                                      timestamp |-> now])]

is_email_processed(s, company_name) == company_name \in DOMAIN s.processed_emails
is_phone_processed(s, company_name) == company_name \in DOMAIN s.processed_phones
is_website_processed(s, company_name) ==
    company_name \in DOMAIN (IF "processed_websites" \in DOMAIN s
                             THEN s.processed_websites ELSE EmptyMap)
get_email(s, company_name) == Get(s.processed_emails, company_name)
get_phone(s, company_name) == Get(s.processed_phones, company_name)
get_website(s, company_name) ==
    Get(IF "processed_websites" \in DOMAIN s THEN s.processed_websites ELSE EmptyMap,
        company_name)

start_session(s, now) ==
    IF s.started_at = None THEN [s EXCEPT !.started_at = now] ELSE s

\* mutant: reset keeps the failure log
reset_KeepsFailures(s) == [DefaultState EXCEPT !.failures = s.failures]

\* reset, the assignment of self.state
reset(s) == DefaultState

(* --------------------------- pending sets ----------------------------- *)
RowIndices(cs) == [i \in 1..Len(cs) |-> i]

KnownWebsite(cs, s, i) == Or2(Or2(cs[i].Website, get_website(s, cs[i].Name)), "")

\* mutant: the pending filter does not consult is_email_processed
NeedsEmail_NoProcessedCheck(cs, s, i) ==
    LET website == KnownWebsite(cs, s, i)
        existing_email == cs[i].Email
    IN  /\ ~(~Truthy(website) \/ website = NotFound)
        /\ ~(Truthy(existing_email) /\ Truthy(Strip(existing_email)))

NeedsEmail(cs, s, i) ==
    LET website == KnownWebsite(cs, s, i)
        existing_email == cs[i].Email
    IN  /\ ~(~Truthy(website) \/ website = NotFound)
        /\ ~(Truthy(existing_email) /\ Truthy(Strip(existing_email)))
        /\ ~is_email_processed(s, cs[i].Name)

NeedsPhone(cs, s, i) ==
    LET website == KnownWebsite(cs, s, i)
    IN  /\ ~(~Truthy(website) \/ website = NotFound)
        /\ ~is_phone_processed(s, cs[i].Name)

NeedsWebsite(cs, s, i) ==
    LET website == cs[i].Website
    IN  /\ ~(Truthy(website) /\ website # NotFound /\ Truthy(Strip(website)))
        /\ ~is_website_processed(s, cs[i].Name)

_get_companies_needing_email(cs, s) ==
    SelectSeq(RowIndices(cs), LAMBDA i : NeedsEmail(cs, s, i))
_get_companies_needing_phone(cs, s) ==
    SelectSeq(RowIndices(cs), LAMBDA i : NeedsPhone(cs, s, i))
_get_companies_needing_website(cs, s) ==
    SelectSeq(RowIndices(cs), LAMBDA i : NeedsWebsite(cs, s, i))

Pending(ph, cs, s) ==
    CASE ph = "website" -> _get_companies_needing_website(cs, s)
      [] ph = "email" -> _get_companies_needing_email(cs, s)
      [] ph = "phone" -> _get_companies_needing_phone(cs, s)

\* mutant: the single-phase runs do not run the website sub-pass
PhasesOfRun_NoSubPass(m, cs, s) ==
    CASE m = "websites_only" -> <<"website">>
      [] m = "emails_only" -> <<"email">>
      [] m = "phones_only" -> <<"phone">>
      [] m = "full" -> <<"website", "email", "phone">>

\* mutant: a full run ends after the email phase
PhasesOfRun_FullSkipsPhones(m, cs, s) ==
    LET websites_needed == Len(_get_companies_needing_website(cs, s))
        first == IF websites_needed > 0 THEN <<"website">> ELSE <<>>
    IN  CASE m = "websites_only" -> <<"website">>
          [] m = "emails_only" -> first \o <<"email">>
          [] m = "phones_only" -> first \o <<"phone">>
          [] m = "full" -> <<"website", "email">>

\* mutant: a websites-only run goes on with the email phase
PhasesOfRun_WebsitesThenEmails(m, cs, s) ==
    LET websites_needed == Len(_get_companies_needing_website(cs, s))
        first == IF websites_needed > 0 THEN <<"website">> ELSE <<>>
    IN  CASE m = "websites_only" -> <<"website", "email">>
          [] m = "emails_only" -> first \o <<"email">>
          [] m = "phones_only" -> first \o <<"phone">>
          [] m = "full" -> <<"website", "email", "phone">>

\* the enrich_* calls run() makes, in order
PhasesOfRun(m, cs, s) ==
    LET websites_needed == Len(_get_companies_needing_website(cs, s))
        first == IF websites_needed > 0 THEN <<"website">> ELSE <<>>
    IN  CASE m = "websites_only" -> <<"website">>
          [] m = "emails_only" -> first \o <<"email">>
          [] m = "phones_only" -> first \o <<"phone">>
          [] m = "full" -> <<"website", "email", "phone">>

\* the value a resolver that found something returns
FoundValue(ph) ==
    CASE ph = "website" -> "https://found.nl"
      [] ph = "email" -> "info@found.nl"
      [] ph = "phone" -> "020-123 4567"

Mark(ph, s, name, value) ==
    CASE ph = "website" -> mark_website_processed(s, name, value)
      [] ph = "email" -> mark_email_processed(s, name, value)
      [] ph = "phone" -> mark_phone_processed(s, name, value)

MapOf(ph, s) ==
    CASE ph = "website" -> s.processed_websites
      [] ph = "email" -> s.processed_emails
      [] ph = "phone" -> s.processed_phones

(* ------------------------------ export -------------------------------- *)
\* ProbableEmailGenerator._extract_domain on the websites of the model: the
\* scheme is removed and the result kept if it has a dot
_extract_domain(url) ==
    CASE url = "https://in.nl" -> "in.nl"
      [] url = "https://found.nl" -> "found.nl"
      [] OTHER -> ""

generate(website) ==
    IF ~Truthy(website) \/ website = NotFound THEN ""
    ELSE LET domain == _extract_domain(website)
         IN  IF ~Truthy(domain) THEN "" ELSE "info@" \o domain

\* mutant: a row without a confirmed email gets the probable email as Email
ExportRow_ProbableAsEmail(cs, s, i) ==
    LET name == cs[i].Name
        website == IF ~Truthy(cs[i].Website) \/ cs[i].Website = NotFound
                   THEN Or2(get_website(s, name), "")
                   ELSE cs[i].Website
        email == Or2(Or2(cs[i].Email, get_email(s, name)), "")
        probable_email == generate(website)
        row == [Name |-> name,
                Website |-> IF website # NotFound THEN website ELSE "",
                Email |-> IF Truthy(email) /\ email # NotFound
                          THEN email ELSE probable_email,
                Probable_Email |-> probable_email,
                Phone |-> Or2(get_phone(s, name), "")]
        Clean(v) == IF v = NotFound THEN "" ELSE v
    IN  [row EXCEPT !.Website = Clean(@), !.Email = Clean(@), !.Phone = Clean(@)]

\* one row of the output (the City column is copied from the input and is
\* left out, as it is in Rows)
ExportRow(cs, s, i) ==
    LET name == cs[i].Name
        website == IF ~Truthy(cs[i].Website) \/ cs[i].Website = NotFound
                   THEN Or2(get_website(s, name), "")
                   ELSE cs[i].Website
        email == Or2(Or2(cs[i].Email, get_email(s, name)), "")
        probable_email == generate(website)
        row == [Name |-> name,
                Website |-> IF website # NotFound THEN website ELSE "",
                Email |-> email,
                Probable_Email |-> probable_email,
                Phone |-> Or2(get_phone(s, name), "")]
        Clean(v) == IF v = NotFound THEN "" ELSE v
    IN  [row EXCEPT !.Website = Clean(@), !.Email = Clean(@), !.Phone = Clean(@)]

export_final_csv(cs, s) == [i \in 1..Len(cs) |-> ExportRow(cs, s, i)]

NoOutput == <<>>
NoExit == "none"
NoCall == [op |-> "none"]

(* ------------------------------ Init ---------------------------------- *)
NoSnap == [valid |-> FALSE, mode |-> "full", websites |-> EmptyMap,
           emails |-> EmptyMap, phones |-> EmptyMap, stats |-> DefaultState.stats]

\* no process has run yet
InitService ==
    /\ state = DefaultState
    /\ clock = 1
    /\ ret = "idle"
    /\ mode = "full"
    /\ dry_run = FALSE
    /\ todo = <<>>
    /\ phase = "website"
    /\ pending = <<>>
    /\ idx = 0
    /\ result = ""
    /\ raised = FALSE
    /\ exported = NoOutput
    /\ exit_status = NoExit
    /\ runs = 0
    /\ kills = 0
    /\ ops = 0
    /\ raises = 0
    /\ attempted = [ph \in Phases |-> {}]
    /\ snap = NoSnap

InitProcess == InitService /\ call = NoCall

InitCommon ==
    \* any input of 1..MaxRows rows; the two names are interchangeable, so the
    \* first row is named "a"
    /\ companies \in UNION {[1..n -> Rows] : n \in 1..MaxRows}
    /\ companies[1].Name = "a"
    /\ file = NoFile
    /\ InitProcess

Init == InitCommon /\ pc = "idle"

\* what is left of a process once it has ended
ProcessGone ==
    /\ state' = DefaultState
    /\ pc' = "idle"
    /\ ret' = "idle"
    /\ mode' = "full"
    /\ dry_run' = FALSE
    /\ todo' = <<>>
    /\ phase' = "website"
    /\ pending' = <<>>
    /\ idx' = 0
    /\ result' = ""
    /\ raised' = FALSE

(* ----------------------------- actions -------------------------------- *)
\* main() with --reset: the service is constructed, the tracker reset, return
MainReset ==
    /\ pc = "idle"
    /\ runs < MaxRuns
    /\ runs' = runs + 1
    /\ file' = NoFile
    /\ ProcessGone
    /\ exit_status' = "ok"
    /\ attempted' = [ph \in Phases |-> {}]
    /\ snap' = NoSnap
    /\ UNCHANGED <<call, companies, clock, exported, kills, ops, raises>>

\* sum(only_flags)
SumFlags(only_flags) == Cardinality({f \in DOMAIN only_flags : only_flags[f]})

\* mutant: the flags are not checked and run() takes the first branch that fits
MainUsageError_Unchecked(only_flags) ==
    /\ SumFlags(only_flags) > 1
    /\ pc = "idle"
    /\ runs < MaxRuns
    /\ runs' = runs + 1
    /\ mode' = IF only_flags["websites_only"] THEN "websites_only" ELSE "emails_only"
    /\ state' = save(start_session(_load_state(file), clock), clock + 1)
    /\ clock' = clock + 2
    /\ file' = PartialFile
    /\ pc' = "save_dump"
    /\ ret' = "dispatch"
    /\ UNCHANGED <<exit_status, call,
                   companies, dry_run, todo, phase, pending, idx, result, raised,
                   exported, kills, ops, attempted, snap, raises>>

\* main() with two or more --*-only flags: parser.error prints the usage and
\* exits, before the service exists
MainUsageError(only_flags) ==
    /\ SumFlags(only_flags) > 1
    /\ pc = "idle"
    /\ runs < MaxRuns
    /\ runs' = runs + 1
    /\ exit_status' = "usage"
    /\ UNCHANGED <<call, companies, state, file, clock, pc, ret, mode, dry_run, todo,
                   phase, pending, idx, result, raised, exported, kills, ops,
                   attempted, snap, raises>>

\* main() without --reset: the service is constructed (the tracker loads the
\* file), run() loads the input and start_session() begins its save
MainRun(m, d) ==
    /\ pc = "idle"
    /\ runs < MaxRuns
    /\ "started_at" \in DOMAIN _load_state(file)
    /\ runs' = runs + 1
    /\ mode' = m
    /\ dry_run' = d
    /\ state' = save(start_session(_load_state(file), clock), clock + 1)
    /\ clock' = clock + 2
    /\ file' = PartialFile
    /\ pc' = "save_dump"
    /\ ret' = "dispatch"
    /\ UNCHANGED <<exit_status, call,
                   companies, todo, phase, pending, idx, result, raised, exported,
                   kills, ops, attempted, snap, raises>>

\* json.dump completes and the file is closed; after a mark_*_processed the
\* loop body ends (processed += 1) and the loop goes on or the method returns
SaveDump ==
    /\ pc = "save_dump"
    /\ file' = WrittenFile(state)
    /\ IF ret = "next"
       THEN /\ attempted' = [attempted EXCEPT
                                ![phase] = @ \cup {companies[pending[idx]].Name}]
            /\ IF idx < Len(pending)
               THEN idx' = idx + 1 /\ pc' = "resolve"
               ELSE idx' = idx /\ pc' = "phase_begin"
       ELSE /\ attempted' = attempted
            /\ idx' = idx
            /\ pc' = ret
    /\ UNCHANGED <<exit_status, call,
                   companies, state, clock, ret, mode, dry_run, todo, phase,
                   pending, result, raised, exported, runs, kills, ops, snap,
                   raises>>

\* mutant: run() does not look at dry_run
Dispatch_IgnoresDryRun ==
    /\ pc = "dispatch"
    /\ pc' = "phase_begin"
    /\ todo' = PhasesOfRun(mode, companies, state)
    /\ UNCHANGED <<exit_status, call,
                   companies, state, file, clock, ret, mode, dry_run, phase,
                   pending, idx, result, raised, exported, runs, kills, ops,
                   attempted, snap, raises>>

\* run() after start_session: dry run, or the choice of the phases
Dispatch ==
    /\ pc = "dispatch"
    /\ IF dry_run
       THEN /\ pc' = "exit"
            /\ todo' = <<>>
       ELSE /\ pc' = "phase_begin"
            /\ todo' = PhasesOfRun(mode, companies, state)
    /\ UNCHANGED <<exit_status, call,
                   companies, state, file, clock, ret, mode, dry_run, phase,
                   pending, idx, result, raised, exported, runs, kills, ops,
                   attempted, snap, raises>>

\* run() calls the next enrich_* method, which computes its pending list
PhaseBegin ==
    /\ pc = "phase_begin"
    /\ todo # <<>>
    /\ phase' = Head(todo)
    /\ todo' = Tail(todo)
    /\ pending' = Pending(Head(todo), companies, state)
    /\ IF pending' = <<>>
       THEN /\ pc' = "phase_begin"
            /\ idx' = 0
       ELSE /\ pc' = "resolve"
            /\ idx' = 1
    /\ UNCHANGED <<exit_status, call,
                   companies, state, file, clock, ret, mode, dry_run, result,
                   raised, exported, runs, kills, ops, attempted, snap, raises>>

\* the try block of the loop body up to the mark_*_processed call: the
\* resolver chain returns a value, returns nothing, or an exception escapes it
Resolve(o) ==
    /\ pc = "resolve"
    /\ IF o = "raise"
       THEN /\ raises < MaxRaises
            /\ raises' = raises + 1
            /\ raised' = TRUE
            /\ result' = ""
            /\ pc' = "except"
       ELSE /\ raises' = raises
            /\ raised' = FALSE
            /\ result' = IF o = "found" THEN FoundValue(phase) ELSE ""
            /\ pc' = "mark"
    /\ UNCHANGED <<exit_status, call,
                   companies, state, file, clock, ret, mode, dry_run, todo, phase,
                   pending, idx, exported, runs, kills, ops, attempted, snap>>

\* except Exception: tracker.mark_failure(name, str(e)), up to its json.dump
Except ==
    /\ pc = "except"
    /\ state' = save(mark_failure(state, companies[pending[idx]].Name, "error", clock),
                     clock + 1)
    /\ clock' = clock + 2
    /\ file' = PartialFile
    /\ pc' = "save_dump"
    /\ ret' = "mark"
    /\ UNCHANGED <<exit_status, call,
                   companies, mode, dry_run, todo, phase, pending, idx, result,
                   raised, exported, runs, kills, ops, attempted, snap, raises>>

\* mutant: mark_*_processed changes the state in memory and does not save
MarkProcessed_Batched ==
    /\ pc = "mark"
    /\ LET name == companies[pending[idx]].Name
           value == IF raised THEN NotFound ELSE Or2(result, NotFound)
       IN  /\ state' = Mark(phase, state, name, value)
           /\ attempted' = [attempted EXCEPT ![phase] = @ \cup {name}]
    /\ IF idx < Len(pending)
       THEN idx' = idx + 1 /\ pc' = "resolve"
       ELSE idx' = idx /\ pc' = "phase_begin"
    /\ UNCHANGED <<exit_status, call,
                   companies, file, clock, ret, mode, dry_run, todo, phase, pending,
                   result, raised, exported, runs, kills, ops, snap, raises>>

\* tracker.mark_*_processed(name, value or "Not found"), up to its json.dump
MarkProcessed ==
    /\ pc = "mark"
    /\ LET name == companies[pending[idx]].Name
           value == IF raised THEN NotFound ELSE Or2(result, NotFound)
       IN  state' = save(Mark(phase, state, name, value), clock)
    /\ clock' = clock + 1
    /\ file' = PartialFile
    /\ pc' = "save_dump"
    /\ ret' = "next"
    /\ UNCHANGED <<exit_status, call,
                   companies, mode, dry_run, todo, phase, pending, idx, result,
                   raised, exported, runs, kills, ops, attempted, snap, raises>>

\* mutant: the output is written as soon as a phase has returned
Export_WithPhasesLeft ==
    /\ pc = "phase_begin"
    /\ phase # "website" \/ todo = <<>>
    /\ exported' = export_final_csv(companies, state)
    /\ pc' = "exit"
    /\ UNCHANGED <<exit_status, call,
                   companies, state, file, clock, ret, mode, dry_run, todo, phase,
                   pending, idx, result, raised, runs, kills, ops, attempted,
                   snap, raises>>

\* export_final_csv and print_summary at the end of a run that was not dry
Export ==
    /\ pc = "phase_begin"
    /\ todo = <<>>
    /\ exported' = export_final_csv(companies, state)
    /\ pc' = "exit"
    /\ UNCHANGED <<exit_status, call,
                   companies, state, file, clock, ret, mode, dry_run, todo, phase,
                   pending, idx, result, raised, runs, kills, ops, attempted,
                   snap, raises>>

\* run() returns and the process ends
Exit ==
    /\ pc = "exit"
    /\ snap' = IF dry_run THEN snap
               ELSE [valid |-> TRUE, mode |-> mode,
                     websites |-> state.processed_websites,
                     emails |-> state.processed_emails,
                     phones |-> state.processed_phones,
                     stats |-> state.stats]
    /\ ProcessGone
    /\ exit_status' = "ok"
    /\ UNCHANGED <<call, companies, file, clock, exported, runs, kills, ops, attempted,
                   raises>>

\* the process is terminated from outside, at any point
Kill ==
    /\ pc \notin {"idle", "api"}
    /\ kills < MaxKills
    /\ kills' = kills + 1
    /\ snap' = NoSnap
    /\ ProcessGone
    /\ exit_status' = "killed"
    /\ UNCHANGED <<call, companies, file, clock, exported, runs, ops, attempted, raises>>

Next ==
    \/ \E only_flags \in OnlyFlags : MainUsageError(only_flags)
    \/ MainReset
    \/ \E m \in Modes, d \in BOOLEAN : MainRun(m, d)
    \/ SaveDump
    \/ Dispatch
    \/ PhaseBegin
    \/ \E o \in Outcomes : Resolve(o)
    \/ Except
    \/ MarkProcessed
    \/ Export
    \/ Exit

Spec == Init /\ [][Next]_vars

NextCrash == Next \/ Kill

SpecCrash == Init /\ [][NextCrash]_vars

(* ------------------ ProgressTracker called directly ------------------- *)
\* The tracker as the unit tests drive it: one tracker object on one progress
\* file, any sequence of its public methods, and a new tracker on the same file.
InitTracker ==
    /\ InitCommon
    /\ Len(companies) = 1
    /\ companies[1] = [Name |-> "a", Website |-> "", Email |-> ""]
    /\ pc = "api"

ApiFrame ==
    UNCHANGED <<exit_status, call,
                companies, mode, dry_run, todo, phase, pending, idx, result, raised,
                exported, runs, kills, raises, attempted, snap>>

ApiSaving ==
    /\ file' = PartialFile
    /\ pc' = "save_dump"
    /\ ret' = "api"
    /\ ops' = ops + 1
    /\ ApiFrame

ApiMarkWebsite(n, v) ==
    /\ pc = "api" /\ ops < MaxOps
    /\ state' = save(mark_website_processed(state, n, v), clock)
    /\ clock' = clock + 1
    /\ ApiSaving

ApiMarkEmail(n, v) ==
    /\ pc = "api" /\ ops < MaxOps
    /\ state' = save(mark_email_processed(state, n, v), clock)
    /\ clock' = clock + 1
    /\ ApiSaving

ApiMarkPhone(n, v) ==
    /\ pc = "api" /\ ops < MaxOps
    /\ state' = save(mark_phone_processed(state, n, v), clock)
    /\ clock' = clock + 1
    /\ ApiSaving

ApiMarkFailure(n) ==
    /\ pc = "api" /\ ops < MaxOps
    /\ state' = save(mark_failure(state, n, "error", clock), clock + 1)
    /\ clock' = clock + 2
    /\ ApiSaving

ApiStartSession ==
    /\ pc = "api" /\ ops < MaxOps
    /\ state' = save(start_session(state, clock), clock + 1)
    /\ clock' = clock + 2
    /\ ApiSaving

\* ProgressTracker.reset: the default state, and the file unlinked
ApiReset ==
    /\ pc = "api" /\ ops < MaxOps
    /\ state' = reset(state)
    /\ file' = NoFile
    /\ ops' = ops + 1
    /\ UNCHANGED <<clock, pc, ret>>
    /\ ApiFrame

\* ProgressTracker(progress_file): a new tracker on the same file
ApiNewTracker ==
    /\ pc = "api" /\ ops < MaxOps
    /\ state' = _load_state(file)
    /\ ops' = ops + 1
    /\ UNCHANGED <<file, clock, pc, ret>>
    /\ ApiFrame

NextTracker ==
    \/ \E n \in Names, v \in MarkValues : ApiMarkWebsite(n, v)
    \/ \E n \in Names, v \in MarkValues : ApiMarkEmail(n, v)
    \/ \E n \in Names, v \in MarkValues : ApiMarkPhone(n, v)
    \/ \E n \in Names : ApiMarkFailure(n)
    \/ ApiStartSession
    \/ ApiReset
    \/ ApiNewTracker
    \/ SaveDump

SpecTracker == InitTracker /\ [][NextTracker]_vars

(* ---------------- a progress file the service finds ------------------- *)
\* The service is started on a progress file that was left by anything: no
\* file, a file that is not JSON, or a JSON object with any subset of the keys
\* of a saved state.
DocKeys == DOMAIN JsonDump(DefaultState)
Restrict(f, K) == [k \in K |-> f[k]]
SavedStates ==
    {DefaultState,
     save(mark_email_processed(start_session(DefaultState, 1), "a", "v"), 2)}
FoundFiles ==
    {NoFile, PartialFile}
        \cup {[exists |-> TRUE, kind |-> "json", doc |-> Restrict(JsonDump(s), K)] :
                    s \in SavedStates, K \in SUBSET DocKeys}

InitLoad ==
    /\ companies = <<[Name |-> "a", Website |-> "", Email |-> ""]>>
    /\ file \in FoundFiles
    /\ InitProcess
    /\ pc = "idle"

\* main() without --reset when the loaded state has no "started_at":
\* start_session raises KeyError, run() and main() let it through
MainRunKeyError ==
    /\ pc = "idle"
    /\ runs < MaxRuns
    /\ "started_at" \notin DOMAIN _load_state(file)
    /\ runs' = runs + 1
    /\ state' = _load_state(file)
    /\ pc' = "fatal"
    /\ exit_status' = "error"
    /\ UNCHANGED <<call, companies, file, clock, ret, mode, dry_run, todo, phase, pending,
                   idx, result, raised, exported, kills, ops, attempted, snap,
                   raises>>

NextLoad ==
    \/ \E m \in Modes, d \in BOOLEAN : MainRun(m, d)
    \/ MainRunKeyError
    \/ SaveDump

SpecLoad == InitLoad /\ [][NextLoad]_vars

(* ---------------- an input table without a Name column --------------- *)
\* csv.DictReader gives rows without the key 'Name', and every
\* company.get('Name', '') of the service is the empty string
RowsNoName == [Name : {""}, Website : WebsiteCol, Email : EmailCol]

InitNoName ==
    /\ companies \in UNION {[1..n -> RowsNoName] : n \in 1..MaxRows}
    /\ file = NoFile
    /\ InitProcess
    /\ pc = "idle"

SpecNoName == InitNoName /\ [][Next]_vars

(* ---------------------------- full runs only -------------------------- *)
\* Invocations without flags, one after the other; a started run goes on
\* executing: every remote call of a resolver returns (with a value, with
\* nothing or with an exception) and every write to the progress file ends.
RunStep ==
    \/ SaveDump
    \/ Dispatch
    \/ PhaseBegin
    \/ \E o \in Outcomes : Resolve(o)
    \/ Except
    \/ MarkProcessed
    \/ Export
    \/ Exit

NextFullRun == MainRun("full", FALSE) \/ RunStep

SpecFullRun == Init /\ [][NextFullRun]_vars /\ WF_vars(RunStep)

(* ------------------- BrightDataMCP called directly ------------------- *)
\* One client, with or without an API token, on which search_engine and
\* scrape_as_markdown are called; every HTTP request ends in one of:
\*   ok          a response that passes raise_for_status, with the content asked for
\*   malformed   a response that passes raise_for_status, with anything else
\*   timeout     requests.Timeout      (a requests.RequestException)
\*   http_error  raise_for_status()    (a requests.RequestException)
\*   other_error an exception that is not a requests.RequestException
HttpOutcomes == {"ok", "malformed", "timeout", "http_error", "other_error"}
RequestException == {"timeout", "http_error"}
Responded == {"ok", "malformed"}
McpOps == {"search_engine", "scrape_as_markdown"}
ApiTokens == {"", "token"}
NoRequest == "none"

\* _parse_google_results(response.text) / _html_to_text(response.text)
ResponseValue(op, o) ==
    IF op = "search_engine"
    THEN (IF o = "ok" THEN <<[link |-> "https://found.nl", title |-> "", description |-> ""]>>
          ELSE <<>>)
    ELSE (IF o = "ok" THEN "text" ELSE "")

\* what the direct path returns from its except branch
DirectFailureValue(op) == IF op = "search_engine" THEN <<>> ELSE NoneStr

ServiceFrame ==
    UNCHANGED <<companies, state, file, clock, pc, ret, mode, dry_run, todo, phase,
                pending, idx, result, raised, exported, runs, kills, ops, raises,
                exit_status, attempted, snap>>

InitMcp ==
    /\ companies = <<[Name |-> "a", Website |-> "", Email |-> ""]>>
    /\ file = NoFile
    /\ InitService
    /\ pc = "idle"
    /\ call \in [op : {"none"}, api_token : ApiTokens, calls : {0}, at : {"idle"},
                 requests : {<<>>}, backend : {NoRequest}, direct : {NoRequest},
                 value : {NoneStr}]

\* the caller enters search_engine(query) or scrape_as_markdown(url)
McpEnter(op) ==
    /\ call.at \in {"idle", "returned", "raised"}
    /\ call.calls < MaxCalls
    /\ call' = [op |-> op, api_token |-> call.api_token, calls |-> call.calls + 1,
                at |-> IF ~Truthy(call.api_token) THEN "direct" ELSE "backend",
                requests |-> <<>>, backend |-> NoRequest, direct |-> NoRequest,
                value |-> NoneStr]
    /\ ServiceFrame

\* the try block: requests.post to the Bright Data API, raise_for_status, parse
McpBackend(o) ==
    /\ call.op \in McpOps /\ call.at = "backend"
    /\ call' = [call EXCEPT
                    !.requests = Append(@, "backend"),
                    !.backend = o,
                    !.at = IF o \in Responded THEN "returned"
                           ELSE IF o \in RequestException THEN "direct"
                           ELSE "raised",
                    !.value = IF o \in Responded THEN ResponseValue(call.op, o) ELSE @]
    /\ ServiceFrame

\* _direct_google_search / _direct_scrape: requests.get, raise_for_status, parse
McpDirect(o) ==
    /\ call.op \in McpOps /\ call.at = "direct"
    /\ call' = [call EXCEPT
                    !.requests = Append(@, "direct"),
                    !.direct = o,
                    !.at = IF o \in Responded \cup RequestException THEN "returned"
                           ELSE "raised",
                    !.value = IF o \in Responded THEN ResponseValue(call.op, o)
                              ELSE IF o \in RequestException
                                   THEN DirectFailureValue(call.op)
                              ELSE @]
    /\ ServiceFrame

NextMcp ==
    \/ \E op \in McpOps : McpEnter(op)
    \/ \E o \in HttpOutcomes : McpBackend(o)
    \/ \E o \in HttpOutcomes : McpDirect(o)

SpecMcp == InitMcp /\ [][NextMcp]_vars

(* ------------------ the loop body, strategy by strategy --------------- *)
\* The try block of the three phase loops, one step per strategy.  A strategy
\* ends in one of:
\*   value            it yields a valid value
\*   nothing          its requests are answered and no valid value is in them
\*   transient_value  a request fails with a requests.RequestException, the
\*                    fallback request (or the second query) yields a value
\*   transient        a request fails with a requests.RequestException and
\*                    nothing is yielded (search_engine returned [],
\*                    scrape_as_markdown returned None)
\*   raise            an exception that is not a requests.RequestException
StageOutcomes == {"value", "nothing", "transient_value", "transient", "raise"}
Yields == {"value", "transient_value"}
Transient == {"transient", "transient_value"}

ContactPaths == <<"/contact", "/kontakt", "/about", "/over-ons">>
Scrapes == <<"homepage">> \o ContactPaths

\* the strategies the loop body of a phase goes through for one record
Strategies(ph, website) ==
    CASE ph = "website" -> <<"search">>
      [] ph = "email" -> <<"search">> \o (IF Truthy(website) /\ website # NotFound
                                           THEN Scrapes ELSE <<>>)
      [] ph = "phone" -> Scrapes

\* the value a strategy extracts when it yields one
StageValue(ph, strategy) ==
    CASE ph = "website" -> "https://found.nl"
      [] ph = "email" ->
            (CASE strategy = "search" -> "info@snippet.nl"
               [] strategy = "homepage" -> "info@found.nl"
               [] strategy = "/contact" -> "contact@found.nl"
               [] strategy = "/kontakt" -> "kontakt@found.nl"
               [] strategy = "/about" -> "about@found.nl"
               [] strategy = "/over-ons" -> "over-ons@found.nl")
      [] ph = "phone" ->
            (CASE strategy = "homepage" -> "020-123 4567"
               [] strategy = "/contact" -> "020-123 4501"
               [] strategy = "/kontakt" -> "020-123 4502"
               [] strategy = "/about" -> "020-123 4503"
               [] strategy = "/over-ons" -> "020-123 4504")

\* find_website and find_email catch every exception of their searches
Swallows(strategy) == strategy = "search"

NewChain == [op |-> "chain", tried |-> <<>>, transient |-> FALSE, done |-> FALSE]

\* mutant: the chain goes on after a strategy has yielded a value
Stage_LastWins(o) ==
    /\ pc = "resolve"
    /\ o = "raise" => raises < MaxRaises
    /\ LET website == KnownWebsite(companies, state, pending[idx])
           plan == Strategies(phase, website)
           cur == IF call.op = "chain" /\ ~call.done THEN call ELSE NewChain
           strategy == plan[Len(cur.tried) + 1]
           escapes == o = "raise" /\ ~Swallows(strategy)
           tried == Append(cur.tried, [strategy |-> strategy, yielded |-> o \in Yields])
           finished == escapes \/ Len(tried) = Len(plan)
       IN  /\ call' = [op |-> "chain", tried |-> tried,
                       transient |-> cur.transient \/ o \in Transient,
                       done |-> finished]
           /\ result' = IF o \in Yields THEN StageValue(phase, strategy)
                        ELSE IF cur.tried = <<>> THEN "" ELSE result
           /\ raised' = escapes
           /\ pc' = IF escapes THEN "except" ELSE IF finished THEN "mark" ELSE "resolve"
    /\ raises' = IF o = "raise" THEN raises + 1 ELSE raises
    /\ UNCHANGED <<exit_status, companies, state, file, clock, ret, mode, dry_run,
                   todo, phase, pending, idx, exported, runs, kills, ops,
                   attempted, snap>>

\* one strategy of the try block: find_website / find_email, or one
\* scrape_as_markdown with extract_emails / extract_phone on its content
Stage(o) ==
    /\ pc = "resolve"
    /\ o = "raise" => raises < MaxRaises
    /\ LET website == KnownWebsite(companies, state, pending[idx])
           plan == Strategies(phase, website)
           cur == IF call.op = "chain" /\ ~call.done THEN call ELSE NewChain
           strategy == plan[Len(cur.tried) + 1]
           escapes == o = "raise" /\ ~Swallows(strategy)
           tried == Append(cur.tried, [strategy |-> strategy, yielded |-> o \in Yields])
           finished == o \in Yields \/ escapes \/ Len(tried) = Len(plan)
       IN  /\ call' = [op |-> "chain", tried |-> tried,
                       transient |-> cur.transient \/ o \in Transient,
                       done |-> finished]
           /\ result' = IF o \in Yields THEN StageValue(phase, strategy) ELSE ""
           /\ raised' = escapes
           /\ pc' = IF escapes THEN "except" ELSE IF finished THEN "mark" ELSE "resolve"
    /\ raises' = IF o = "raise" THEN raises + 1 ELSE raises
    /\ UNCHANGED <<exit_status, companies, state, file, clock, ret, mode, dry_run,
                   todo, phase, pending, idx, exported, runs, kills, ops,
                   attempted, snap>>

NextChain ==
    \/ \E m \in Modes, d \in BOOLEAN : MainRun(m, d)
    \/ SaveDump
    \/ Dispatch
    \/ PhaseBegin
    \/ \E o \in StageOutcomes : Stage(o)
    \/ Except
    \/ MarkProcessed
    \/ Export
    \/ Exit

\* one input row, no progress file
InitChain ==
    /\ companies \in [1..1 -> {r \in Rows : r.Name = "a"}]
    /\ file = NoFile
    /\ InitProcess
    /\ pc = "idle"

SpecChain == InitChain /\ [][NextChain]_vars

(* ---------------------- _parse_google_results ------------------------ *)
\* A URL is the sequence of its pieces between '&' characters, so that
\* url.split('&') is the URL itself and url.split('&')[0] its first piece.
\* The link at position k of all_urls is one of
\*   fresh    a URL met at no other position; tracked (a '&' piece follows)
\*            at the even positions
\*   social   a URL on facebook.com, which skip_domains matches
\*   again    the URL two positions back (one back at position 2), with a
\*            tracking piece if that one had none and without if it had one
LinkKinds == {"fresh", "social", "again"}
Sites == <<"https://s1.nl", "https://s2.nl", "https://s3.nl", "https://s4.nl",
           "https://s5.nl", "https://s6.nl", "https://s7.nl", "https://s8.nl",
           "https://s9.nl", "https://s10.nl", "https://s11.nl", "https://s12.nl",
           "https://s13.nl">>
Socials == <<"https://www.facebook.com/p1", "https://www.facebook.com/p2",
             "https://www.facebook.com/p3", "https://www.facebook.com/p4",
             "https://www.facebook.com/p5", "https://www.facebook.com/p6",
             "https://www.facebook.com/p7", "https://www.facebook.com/p8",
             "https://www.facebook.com/p9", "https://www.facebook.com/p10",
             "https://www.facebook.com/p11", "https://www.facebook.com/p12",
             "https://www.facebook.com/p13">>
Range(f) == {f[x] : x \in DOMAIN f}

RECURSIVE LinkAt(_, _)
LinkAt(kinds, k) ==
    LET tracked(piece) == <<piece, "sa=U">>
        plain(piece) == <<piece>>
    IN  CASE kinds[k] = "fresh" -> IF k % 2 = 0 THEN tracked(Sites[k]) ELSE plain(Sites[k])
          [] kinds[k] = "social" -> IF k % 2 = 0 THEN tracked(Socials[k]) ELSE plain(Socials[k])
          [] kinds[k] = "again" ->
                IF k = 1 THEN plain(Sites[k])
                ELSE LET earlier == LinkAt(kinds, IF k = 2 THEN 1 ELSE k - 2)
                     IN  IF Len(earlier) = 1 THEN tracked(earlier[1]) ELSE plain(earlier[1])

\* all_urls = urls + direct_urls of a page with the given links
AllUrls(kinds) == [k \in 1..Len(kinds) |-> LinkAt(kinds, k)]

\* any(d in url.lower() for d in skip_domains), on the URLs of the model
SkipDomain(url) == url \in Range(Socials)

MaxResults == 10

\* mutant: seen is not consulted
ParseLoop_NoSeen(all_urls) ==
    LET RECURSIVE Loop(_, _, _)
        Loop(k, seen, results) ==
            IF k > Len(all_urls) THEN results
            ELSE LET url == all_urls[k][1]
                 IN  IF SkipDomain(url) THEN Loop(k + 1, seen \cup {url}, results)
                     ELSE LET appended == Append(results, [link |-> url, title |-> "",
                                                            description |-> ""])
                          IN  IF Len(appended) >= MaxResults THEN appended
                              ELSE Loop(k + 1, seen \cup {url}, appended)
    IN  Loop(1, {}, <<>>)

\* the loop over all_urls: clean, deduplicate, filter, append, stop at ten
ParseLoop(all_urls) ==
    LET RECURSIVE Loop(_, _, _)
        Loop(k, seen, results) ==
            IF k > Len(all_urls) THEN results
            ELSE LET url == all_urls[k][1]
                 IN  IF url \in seen THEN Loop(k + 1, seen, results)
                     ELSE IF SkipDomain(url) THEN Loop(k + 1, seen \cup {url}, results)
                     ELSE LET appended == Append(results, [link |-> url, title |-> "",
                                                            description |-> ""])
                          IN  IF Len(appended) >= MaxResults THEN appended
                              ELSE Loop(k + 1, seen \cup {url}, appended)
    IN  Loop(1, {}, <<>>)

InitParse ==
    /\ companies = <<[Name |-> "a", Website |-> "", Email |-> ""]>>
    /\ file = NoFile
    /\ InitService
    /\ pc = "idle"
    /\ \E n \in 0..MaxLinks : \E kinds \in [1..n -> LinkKinds] :
            call = [op |-> "_parse_google_results", at |-> "called",
                    all_urls |-> AllUrls(kinds), results |-> <<>>]

_parse_google_results ==
    /\ call.op = "_parse_google_results" /\ call.at = "called"
    /\ call' = [call EXCEPT !.at = "returned", !.results = ParseLoop(call.all_urls)]
    /\ ServiceFrame

SpecParse == InitParse /\ [][_parse_google_results]_vars

(* ------------------- strings as sequences of characters --------------- *)
\* Where the code looks inside a string (in, startswith, endswith, replace,
\* split, lower) the string is the sequence of its characters.
OccursAt(sub, str, i) ==
    /\ i + Len(sub) - 1 <= Len(str)
    /\ \A j \in 1..Len(sub) : str[i + j - 1] = sub[j]

\* sub in str
In(sub, str) == \E i \in 1..(Len(str) + 1) : OccursAt(sub, str, i)

\* str.startswith(prefix), str.endswith(suffix)
startswith(str, prefix) == OccursAt(prefix, str, 1)
endswith(str, suffix) ==
    Len(suffix) <= Len(str) /\ OccursAt(suffix, str, Len(str) - Len(suffix) + 1)

\* str.replace(old, '')
RECURSIVE remove(_, _)
remove(str, old) ==
    IF str = <<>> THEN <<>>
    ELSE IF OccursAt(old, str, 1) THEN remove(SubSeq(str, Len(old) + 1, Len(str)), old)
    ELSE <<Head(str)>> \o remove(Tail(str), old)

\* str.split(sep)[0] for a separator of one character
RECURSIVE split0(_, _)
split0(str, sep) ==
    IF str = <<>> \/ Head(str) = sep THEN <<>>
    ELSE <<Head(str)>> \o split0(Tail(str), sep)

\* str.split(sep)[-1] for a separator of one character
RECURSIVE splitLast(_, _)
splitLast(str, sep) ==
    IF \E i \in 1..Len(str) : str[i] = sep
    THEN splitLast(Tail(str), sep)
    ELSE str

\* str.lower(), on the ASCII letters
UpperCase == {"A", "B", "C", "D", "E", "F", "G", "H", "I", "J", "K", "L", "M",
              "N", "O", "P", "Q", "R", "S", "T", "U", "V", "W", "X", "Y", "Z"}
LowerChar(c) ==
    IF c \notin UpperCase THEN c ELSE
    CASE c = "A" -> "a" [] c = "B" -> "b" [] c = "C" -> "c" [] c = "D" -> "d"
      [] c = "E" -> "e" [] c = "F" -> "f" [] c = "G" -> "g" [] c = "H" -> "h"
      [] c = "I" -> "i" [] c = "J" -> "j" [] c = "K" -> "k" [] c = "L" -> "l"
      [] c = "M" -> "m" [] c = "N" -> "n" [] c = "O" -> "o" [] c = "P" -> "p"
      [] c = "Q" -> "q" [] c = "R" -> "r" [] c = "S" -> "s" [] c = "T" -> "t"
      [] c = "U" -> "u" [] c = "V" -> "v" [] c = "W" -> "w" [] c = "X" -> "x"
      [] c = "Y" -> "y" [] c = "Z" -> "z"
lower(str) == [i \in 1..Len(str) |-> LowerChar(str[i])]

\* set(str.split()): the words between blanks
RECURSIVE words(_)
words(str) ==
    IF str = <<>> THEN {}
    ELSE IF Head(str) = " " THEN words(Tail(str))
    ELSE {split0(str, " ")} \cup words(SubSeq(str, Len(split0(str, " ")) + 1, Len(str)))

(* ------------------------ _select_best_website ------------------------ *)
EXCLUDE_DOMAINS == <<
    <<"f", "a", "c", "e", "b", "o", "o", "k", ".", "c", "o", "m">>,
    <<"l", "i", "n", "k", "e", "d", "i", "n", ".", "c", "o", "m">>,
    <<"t", "w", "i", "t", "t", "e", "r", ".", "c", "o", "m">>,
    <<"i", "n", "s", "t", "a", "g", "r", "a", "m", ".", "c", "o", "m">>,
    <<"y", "o", "u", "t", "u", "b", "e", ".", "c", "o", "m">>,
    <<"t", "i", "k", "t", "o", "k", ".", "c", "o", "m">>,
    <<"p", "i", "n", "t", "e", "r", "e", "s", "t", ".", "c", "o", "m">>,
    <<"x", ".", "c", "o", "m">>,
    <<"y", "e", "l", "p", ".", "c", "o", "m">>,
    <<"y", "e", "l", "l", "o", "w", "p", "a", "g", "e", "s", ".", "c", "o", "m">>,
    <<"g", "l", "a", "s", "s", "d", "o", "o", "r", ".", "c", "o", "m">>,
    <<"i", "n", "d", "e", "e", "d", ".", "c", "o", "m">>,
    <<"w", "i", "k", "i", "p", "e", "d", "i", "a", ".", "o", "r", "g">>,
    <<"c", "r", "u", "n", "c", "h", "b", "a", "s", "e", ".", "c", "o", "m">>,
    <<"b", "l", "o", "o", "m", "b", "e", "r", "g", ".", "c", "o", "m">>,
    <<"k", "v", "k", ".", "n", "l">>,
    <<"o", "p", "e", "n", "k", "v", "k", ".", "n", "l">>,
    <<"c", "o", "m", "p", "a", "n", "y", "w", "e", "b", ".", "b", "e">>,
    <<"c", "o", "m", "p", "a", "n", "y", "i", "n", "f", "o", ".", "n", "l">>,
    <<"g", "o", "o", "g", "l", "e", ".", "c", "o", "m">>,
    <<"g", "o", "o", "g", "l", "e", ".", "n", "l">>,
    <<"b", "i", "n", "g", ".", "c", "o", "m">>>>

\* search result links: https://www.acmebouw.nl, https://acme.org/contact, https://acme.com, https://bouw.nl, https://www.Acme.nl/, https://bv-holding.nl, https://www.facebook.com/acmebouw, https://relax.com, http://other.org
ResultLinks == {
    <<"h", "t", "t", "p", "s", ":", "/", "/", "w", "w", "w", ".", "a", "c", "m", "e", "b", "o", "u", "w", ".", "n", "l">>,
    <<"h", "t", "t", "p", "s", ":", "/", "/", "a", "c", "m", "e", ".", "o", "r", "g", "/", "c", "o", "n", "t", "a", "c", "t">>,
    <<"h", "t", "t", "p", "s", ":", "/", "/", "a", "c", "m", "e", ".", "c", "o", "m">>,
    <<"h", "t", "t", "p", "s", ":", "/", "/", "b", "o", "u", "w", ".", "n", "l">>,
    <<"h", "t", "t", "p", "s", ":", "/", "/", "w", "w", "w", ".", "A", "c", "m", "e", ".", "n", "l", "/">>,
    <<"h", "t", "t", "p", "s", ":", "/", "/", "b", "v", "-", "h", "o", "l", "d", "i", "n", "g", ".", "n", "l">>,
    <<"h", "t", "t", "p", "s", ":", "/", "/", "w", "w", "w", ".", "f", "a", "c", "e", "b", "o", "o", "k", ".", "c", "o", "m", "/", "a", "c", "m", "e", "b", "o", "u", "w">>,
    <<"h", "t", "t", "p", "s", ":", "/", "/", "r", "e", "l", "a", "x", ".", "c", "o", "m">>,
    <<"h", "t", "t", "p", ":", "/", "/", "o", "t", "h", "e", "r", ".", "o", "r", "g">>}

\* company names: Acme Bouw bv, acme
CompanyNames == {
    <<"A", "c", "m", "e", " ", "B", "o", "u", "w", " ", "b", "v">>,
    <<"a", "c", "m", "e">>}

https == <<"h", "t", "t", "p", "s", ":", "/", "/">>
http == <<"h", "t", "t", "p", ":", "/", "/">>
www == <<"w", "w", "w", ".">>
dot_nl == <<".", "n", "l">>
dot_com == <<".", "c", "o", "m">>

Excluded(url) == \E k \in 1..Len(EXCLUDE_DOMAINS) : In(EXCLUDE_DOMAINS[k], lower(url))

DomainOf(url) == split0(remove(remove(remove(lower(url), https), http), www), "/")

Score(url, company_name) ==
    LET company_words == words(lower(company_name))
        domain == DomainOf(url)
    IN  10 * Cardinality({word \in company_words : Len(word) > 2 /\ In(word, domain)})
        + (IF endswith(domain, dot_nl) THEN 5
           ELSE IF endswith(domain, dot_com) THEN 3 ELSE 0)

\* scored_results: the (url, score) pairs of the results that are kept
RECURSIVE Scored(_, _)
Scored(results, company_name) ==
    IF results = <<>> THEN <<>>
    ELSE LET url == Head(results).link
             rest == Scored(Tail(results), company_name)
         IN  IF url = <<>> \/ Excluded(url) THEN rest
             ELSE <<[url |-> url, score |-> Score(url, company_name)]>> \o rest

\* list.sort(key=score, reverse=True): stable, descending
RECURSIVE SortDescending(_)
SortDescending(pairs) ==
    IF pairs = <<>> THEN <<>>
    ELSE LET top == CHOOSE i \in 1..Len(pairs) :
                        /\ \A j \in 1..Len(pairs) : pairs[j].score <= pairs[i].score
                        /\ \A j \in 1..(i - 1) : pairs[j].score < pairs[i].score
             others == [j \in 1..(Len(pairs) - 1) |-> IF j < top THEN pairs[j] ELSE pairs[j + 1]]
         IN  <<pairs[top]>> \o SortDescending(others)

\* mutant: the results are not sorted, the first kept one is returned
SelectBestWebsite_First(results, company_name) ==
    LET scored_results == Scored(results, company_name)
    IN  IF scored_results = <<>> THEN <<>>
        ELSE LET best_url == scored_results[1].url
             IN  IF ~startswith(best_url, <<"h", "t", "t", "p">>) THEN https \o best_url
                 ELSE best_url

_select_best_website(results, company_name) ==
    LET scored_results == Scored(results, company_name)
    IN  IF scored_results = <<>> THEN <<>>
        ELSE LET best_url == SortDescending(scored_results)[1].url
             IN  IF ~startswith(best_url, <<"h", "t", "t", "p">>) THEN https \o best_url
                 ELSE best_url

InitSelectWebsite ==
    /\ companies = <<[Name |-> "a", Website |-> "", Email |-> ""]>>
    /\ file = NoFile
    /\ InitService
    /\ pc = "idle"
    /\ \E n \in 0..MaxResultsIn : \E links \in [1..n -> ResultLinks] :
       \E company_name \in CompanyNames :
            call = [op |-> "_select_best_website", at |-> "called",
                    results |-> [k \in 1..n |-> [link |-> links[k], title |-> "",
                                                  description |-> ""]],
                    company_name |-> company_name, value |-> <<>>]

SelectBestWebsite ==
    /\ call.op = "_select_best_website" /\ call.at = "called"
    /\ call' = [call EXCEPT !.at = "returned",
                            !.value = _select_best_website(call.results, call.company_name)]
    /\ ServiceFrame

SpecSelectWebsite == InitSelectWebsite /\ [][SelectBestWebsite]_vars

(* --------------------------- email selection -------------------------- *)
EXCLUDE_PATTERNS == <<
    <<".", "p", "n", "g">>,
    <<".", "j", "p", "g">>,
    <<".", "g", "i", "f">>,
    <<".", "s", "v", "g">>,
    <<".", "j", "p", "e", "g">>,
    <<".", "w", "e", "b", "p">>,
    <<"e", "x", "a", "m", "p", "l", "e", ".">>,
    <<"y", "o", "u", "r", "@">>,
    <<"e", "m", "a", "i", "l", "@">>,
    <<"n", "a", "m", "e", "@">>,
    <<"u", "s", "e", "r", "@">>,
    <<"t", "e", "s", "t", "@">>,
    <<"s", "a", "m", "p", "l", "e", "@">>,
    <<"d", "e", "m", "o", "@">>,
    <<"@", "e", "x", "a", "m", "p", "l", "e">>,
    <<"@", "t", "e", "s", "t">>,
    <<"w", "i", "x", "p", "r", "e", "s", "s", ".", "c", "o", "m">>,
    <<"s", "e", "n", "t", "r", "y", ".", "i", "o">>,
    <<"w", "o", "r", "d", "p", "r", "e", "s", "s", ".", "c", "o", "m">>,
    <<"n", "o", "r", "e", "p", "l", "y", "@">>,
    <<"n", "o", "-", "r", "e", "p", "l", "y", "@">>,
    <<"d", "o", "n", "o", "t", "r", "e", "p", "l", "y", "@">>>>

PRIORITY_PREFIXES == <<
    <<"i", "n", "f", "o", "@">>,
    <<"c", "o", "n", "t", "a", "c", "t", "@">>,
    <<"h", "e", "l", "l", "o", "@">>,
    <<"o", "f", "f", "i", "c", "e", "@">>,
    <<"a", "d", "m", "i", "n", "@">>,
    <<"s", "a", "l", "e", "s", "@">>>>

\* addresses EMAIL_PATTERN.findall returns: john@x.nl, info@x.nl, Info@x.nl, contact@x.nl, info@max.nl, jan@other.com, sales@other.com, piet@acmebouw.nl, noreply@x.nl
FoundAddresses == {
    <<"j", "o", "h", "n", "@", "x", ".", "n", "l">>,
    <<"i", "n", "f", "o", "@", "x", ".", "n", "l">>,
    <<"I", "n", "f", "o", "@", "x", ".", "n", "l">>,
    <<"c", "o", "n", "t", "a", "c", "t", "@", "x", ".", "n", "l">>,
    <<"i", "n", "f", "o", "@", "m", "a", "x", ".", "n", "l">>,
    <<"j", "a", "n", "@", "o", "t", "h", "e", "r", ".", "c", "o", "m">>,
    <<"s", "a", "l", "e", "s", "@", "o", "t", "h", "e", "r", ".", "c", "o", "m">>,
    <<"p", "i", "e", "t", "@", "a", "c", "m", "e", "b", "o", "u", "w", ".", "n", "l">>,
    <<"n", "o", "r", "e", "p", "l", "y", "@", "x", ".", "n", "l">>}

\* the domain argument of extract_emails: '', https://www.x.nl, https://other.com/about
DomainArgs == {
    <<>>,
    <<"h", "t", "t", "p", "s", ":", "/", "/", "w", "w", "w", ".", "x", ".", "n", "l">>,
    <<"h", "t", "t", "p", "s", ":", "/", "/", "o", "t", "h", "e", "r", ".", "c", "o", "m", "/", "a", "b", "o", "u", "t">>}

ExcludedAddress(email) ==
    \E k \in 1..Len(EXCLUDE_PATTERNS) : In(EXCLUDE_PATTERNS[k], lower(email))

\* mutant: EXCLUDE_PATTERNS is not consulted
ValidEmails_Unfiltered(emails) == [i \in 1..Len(emails) |-> lower(emails[i])]

\* the valid addresses of a text, lower-cased, in the order they are found
RECURSIVE ValidEmails(_)
ValidEmails(emails) ==
    IF emails = <<>> THEN <<>>
    ELSE (IF ExcludedAddress(Head(emails)) THEN <<>> ELSE <<lower(Head(emails))>>)
         \o ValidEmails(Tail(emails))

\* list(set(valid_emails)): the distinct addresses, in the iteration order of
\* a set of strings, which depends on the hash seed of the process
ListOfSet(emails) ==
    LET distinct == Range(emails)
    IN  {order \in [1..Cardinality(distinct) -> distinct] :
            \A i, j \in 1..Cardinality(distinct) : i # j => order[i] # order[j]}

_get_domain_base(url) ==
    lower(split0(remove(remove(remove(url, https), http), www), "/"))

RECURSIVE Filter(_, _)
Filter(emails, part) ==
    IF emails = <<>> THEN <<>>
    ELSE (IF In(part, Head(emails)) THEN <<Head(emails)>> ELSE <<>>)
         \o Filter(Tail(emails), part)

\* for prefix in PRIORITY_PREFIXES: for email in emails: if
\* email.startswith(prefix): return email  (the empty string if none does)
PriorityPick(emails) ==
    LET hits(k) == {i \in 1..Len(emails) : startswith(emails[i], PRIORITY_PREFIXES[k])}
        prefixes == {k \in 1..Len(PRIORITY_PREFIXES) : hits(k) # {}}
    IN  IF prefixes = {} THEN <<>>
        ELSE LET k == CHOOSE k \in prefixes : \A h \in prefixes : k <= h
                 i == CHOOSE i \in hits(k) : \A h \in hits(k) : i <= h
             IN  emails[i]

_select_best_email(emails, domain_base) ==
    LET matching_domain == Filter(emails, domain_base)
        on_domain == IF domain_base = <<>> \/ matching_domain = <<>> THEN <<>>
                     ELSE IF PriorityPick(matching_domain) # <<>>
                          THEN PriorityPick(matching_domain)
                     ELSE matching_domain[1]
    IN  IF on_domain # <<>> THEN on_domain
        ELSE IF PriorityPick(emails) # <<>> THEN PriorityPick(emails)
        ELSE emails[1]

\* the values one execution of extract_emails can return
extract_emails(emails, domain) ==
    LET valid_emails == ValidEmails(emails)
        domain_base == IF domain # <<>> THEN _get_domain_base(domain) ELSE <<>>
    IN  IF valid_emails = <<>> THEN {<<>>}
        ELSE {_select_best_email(order, domain_base) : order \in ListOfSet(valid_emails)}

\* the part of an address after its '@'
AfterAt(email) ==
    IF \E i \in 1..Len(email) : email[i] = "@"
    THEN split0(SubSeq(email, Len(split0(email, "@")) + 2, Len(email)), "@")
    ELSE <<>>

\* for email in all_emails: if a company word longer than 3 is in its
\* domain: return email; else all_emails[0]
PickByCompany(all_emails, company_name) ==
    LET company_words == {w \in words(lower(company_name)) : Len(w) > 3}
        hits == {i \in 1..Len(all_emails) :
                    \E word \in company_words : In(word, AfterAt(all_emails[i]))}
    IN  IF hits # {} THEN all_emails[CHOOSE i \in hits : \A h \in hits : i <= h]
        ELSE all_emails[1]

\* the values one execution of _extract_email_from_results can return
_extract_email_from_results(emails, company_name) ==
    LET all_emails == ValidEmails(emails)
    IN  IF all_emails = <<>> THEN {<<>>}
        ELSE {PickByCompany(order, company_name) : order \in ListOfSet(all_emails)}

InitSelectEmail ==
    /\ companies = <<[Name |-> "a", Website |-> "", Email |-> ""]>>
    /\ file = NoFile
    /\ InitService
    /\ pc = "idle"
    /\ \E n \in 0..MaxEmails : \E emails \in [1..n -> FoundAddresses] :
        \/ \E domain \in DomainArgs :
                call = [op |-> "extract_emails", emails |-> emails,
                        arg |-> domain, returns |-> <<>>]
        \/ \E company_name \in CompanyNames :
                call = [op |-> "_extract_email_from_results", emails |-> emails,
                        arg |-> company_name, returns |-> <<>>]

\* one execution of EmailEnricher.extract_emails(content, domain)
ExtractEmails ==
    /\ call.op = "extract_emails"
    /\ Len(call.returns) < MaxExecutions
    /\ \E email \in extract_emails(call.emails, call.arg) :
            call' = [call EXCEPT !.returns = Append(@, email)]
    /\ ServiceFrame

\* one execution of GoogleEmailFinder._extract_email_from_results
ExtractEmailFromResults ==
    /\ call.op = "_extract_email_from_results"
    /\ Len(call.returns) < MaxExecutions
    /\ \E email \in _extract_email_from_results(call.emails, call.arg) :
            call' = [call EXCEPT !.returns = Append(@, email)]
    /\ ServiceFrame

NextSelectEmail == ExtractEmails \/ ExtractEmailFromResults

SpecSelectEmail == InitSelectEmail /\ [][NextSelectEmail]_vars

(* --------------------------- phone extraction ------------------------- *)
\* A pattern is the sequence of its elements: a literal character, an
\* optional separator [\s.-]?, the optional group (?:\(0\))?, n digits
\* \d{n}, or one or two digits \d{1,2}; optional and counted elements are
\* greedy.
Digit == {"0", "1", "2", "3", "4", "5", "6", "7", "8", "9"}
SepChars == {" ", ".", "-"}

DUTCH_PATTERNS == <<
    \* \+31[\s.-]?(?:\(0\))?[\s.-]?\d{1,2}[\s.-]?\d{3}[\s.-]?\d{4}
    <<[t |-> "lit", c |-> "+", n |-> 1],
      [t |-> "lit", c |-> "3", n |-> 1],
      [t |-> "lit", c |-> "1", n |-> 1],
      [t |-> "sep?", c |-> "", n |-> 1],
      [t |-> "(0)?", c |-> "", n |-> 3],
      [t |-> "sep?", c |-> "", n |-> 1],
      [t |-> "d12", c |-> "", n |-> 2],
      [t |-> "sep?", c |-> "", n |-> 1],
      [t |-> "d", c |-> "", n |-> 3],
      [t |-> "sep?", c |-> "", n |-> 1],
      [t |-> "d", c |-> "", n |-> 4]>>,
    \* 0\d{2}[\s.-]?\d{3}[\s.-]?\d{4}
    <<[t |-> "lit", c |-> "0", n |-> 1],
      [t |-> "d", c |-> "", n |-> 2],
      [t |-> "sep?", c |-> "", n |-> 1],
      [t |-> "d", c |-> "", n |-> 3],
      [t |-> "sep?", c |-> "", n |-> 1],
      [t |-> "d", c |-> "", n |-> 4]>>,
    \* 06[\s.-]?\d{4}[\s.-]?\d{4}
    <<[t |-> "lit", c |-> "0", n |-> 1],
      [t |-> "lit", c |-> "6", n |-> 1],
      [t |-> "sep?", c |-> "", n |-> 1],
      [t |-> "d", c |-> "", n |-> 4],
      [t |-> "sep?", c |-> "", n |-> 1],
      [t |-> "d", c |-> "", n |-> 4]>>,
    \* \(0\d{2}\)[\s.-]?\d{3}[\s.-]?\d{4}
    <<[t |-> "lit", c |-> "(", n |-> 1],
      [t |-> "lit", c |-> "0", n |-> 1],
      [t |-> "d", c |-> "", n |-> 2],
      [t |-> "lit", c |-> ")", n |-> 1],
      [t |-> "sep?", c |-> "", n |-> 1],
      [t |-> "d", c |-> "", n |-> 3],
      [t |-> "sep?", c |-> "", n |-> 1],
      [t |-> "d", c |-> "", n |-> 4]>>,
    \* 0\d{9}
    <<[t |-> "lit", c |-> "0", n |-> 1],
      [t |-> "d", c |-> "", n |-> 9]>>>>

DigitsAt(str, pos, n) ==
    pos + n - 1 <= Len(str) /\ \A i \in pos..(pos + n - 1) : str[i] \in Digit

\* the positions after the matches of pattern p that start at pos, in the
\* order in which the backtracking matcher finds them
RECURSIVE Ends(_, _, _)
Ends(p, str, pos) ==
    IF p = <<>> THEN <<pos>>
    ELSE LET e == Head(p)
             after(n) == Ends(Tail(p), str, pos + n)
         IN  CASE e.t = "lit" ->
                    IF pos <= Len(str) /\ str[pos] = e.c THEN after(1) ELSE <<>>
               [] e.t = "sep?" ->
                    (IF pos <= Len(str) /\ str[pos] \in SepChars THEN after(1) ELSE <<>>)
                    \o after(0)
               [] e.t = "(0)?" ->
                    (IF OccursAt(<<"(", "0", ")">>, str, pos) THEN after(3) ELSE <<>>)
                    \o after(0)
               [] e.t = "d" -> IF DigitsAt(str, pos, e.n) THEN after(e.n) ELSE <<>>
               [] e.t = "d12" ->
                    (IF DigitsAt(str, pos, 2) THEN after(2) ELSE <<>>)
                    \o (IF DigitsAt(str, pos, 1) THEN after(1) ELSE <<>>)

\* pattern.findall(content): the leftmost matches, none overlapping
RECURSIVE findall(_, _, _)
findall(p, str, pos) ==
    IF pos > Len(str) THEN <<>>
    ELSE LET ends == Ends(p, str, pos)
         IN  IF ends # <<>> THEN <<SubSeq(str, pos, ends[1] - 1)>> \o findall(p, str, ends[1])
             ELSE findall(p, str, pos + 1)

RECURSIVE Keep(_, _)
Keep(str, chars) ==
    IF str = <<>> THEN <<>>
    ELSE (IF Head(str) \in chars THEN <<Head(str)>> ELSE <<>>) \o Keep(Tail(str), chars)

RECURSIVE Drop(_, _)
Drop(str, chars) ==
    IF str = <<>> THEN <<>>
    ELSE (IF Head(str) \in chars THEN <<>> ELSE <<Head(str)>>) \o Drop(Tail(str), chars)

\* re.sub(r'[\s.\-()]+', '', phone)
_clean_phone(phone) == Drop(phone, {" ", ".", "-", "(", ")"})

\* re.sub(r'\D', '', phone)
digits_only(phone) == Keep(phone, Digit)

plus31 == <<"+", "3", "1">>

_is_valid_dutch_phone(phone) ==
    LET national == IF startswith(phone, plus31)
                    THEN <<"0">> \o SubSeq(phone, 4, Len(phone)) ELSE phone
    IN  startswith(national, <<"0">>) /\ Len(digits_only(national)) = 10

_format_phone(phone) ==
    LET all == digits_only(phone)
        digits == IF startswith(phone, plus31) THEN <<"0">> \o SubSeq(all, 3, Len(all))
                  ELSE IF startswith(all, <<"3", "1">>) /\ Len(all) = 11
                       THEN <<"0">> \o SubSeq(all, 3, Len(all))
                  ELSE all
    IN  IF Len(digits) = 10
        THEN SubSeq(digits, 1, 3) \o <<"-">> \o SubSeq(digits, 4, 6) \o <<" ">>
             \o SubSeq(digits, 7, 10)
        ELSE phone

RECURSIVE ValidPhones(_)
ValidPhones(all_phones) ==
    IF all_phones = <<>> THEN <<>>
    ELSE LET cleaned == _clean_phone(Head(all_phones))
         IN  (IF _is_valid_dutch_phone(cleaned) THEN <<cleaned>> ELSE <<>>)
             \o ValidPhones(Tail(all_phones))

RECURSIVE AllPhones(_, _)
AllPhones(content, k) ==
    IF k > Len(DUTCH_PATTERNS) THEN <<>>
    ELSE findall(DUTCH_PATTERNS[k], content, 1) \o AllPhones(content, k + 1)

extract_phone(content) ==
    LET all_phones == AllPhones(content, 1)
        valid_phones == ValidPhones(all_phones)
    IN  IF content = <<>> \/ all_phones = <<>> \/ valid_phones = <<>> THEN <<>>
        ELSE _format_phone(valid_phones[1])

\* the texts: a national number of 10 digits, written in national form, with
\* +31 in place of its leading 0, or with +31 (0); its other 9 digits in
\* groups; a separator between the groups; with or without a lead text
NationalNumbers == {
    <<"0", "2", "0", "1", "2", "3", "4", "5", "6", "7">>,
    <<"0", "6", "1", "2", "3", "4", "5", "6", "7", "8">>,
    <<"0", "5", "2", "3", "1", "2", "3", "4", "5", "6">>}
Groupings == {<<9>>, <<2, 3, 4>>, <<2, 7>>, <<1, 4, 4>>, <<1, 8>>, <<3, 6>>, <<2, 3, 2, 2>>}
GroupSeps == {<<>>, <<" ">>, <<"-">>, <<".">>}
Forms == {"national", "international", "international (0)", "no number"}
Leads == {<<>>, <<"B", "e", "l", " ", "o", "n", "s", " ", "o", "p", " ">>}

RECURSIVE Grouped(_, _, _)
Grouped(digits, grouping, sep) ==
    IF grouping = <<>> THEN <<>>
    ELSE SubSeq(digits, 1, Head(grouping))
         \o (IF Tail(grouping) = <<>> THEN <<>> ELSE sep)
         \o Grouped(SubSeq(digits, Head(grouping) + 1, Len(digits)), Tail(grouping), sep)

Written(national, form, grouping, sep) ==
    LET rest == Grouped(Tail(national), grouping, sep)
    IN  CASE form = "national" -> <<"0">> \o rest
          [] form = "international" -> plus31 \o sep \o rest
          [] form = "international (0)" -> plus31 \o sep \o <<"(", "0", ")">> \o rest
          [] form = "no number" -> <<>>

InitExtractPhone ==
    /\ companies = <<[Name |-> "a", Website |-> "", Email |-> ""]>>
    /\ file = NoFile
    /\ InitService
    /\ pc = "idle"
    /\ \E national \in NationalNumbers, form \in Forms, grouping \in Groupings,
          sep \in GroupSeps, lead \in Leads :
            call = [op |-> "extract_phone", at |-> "called", national |-> national,
                    form |-> form, grouping |-> grouping, sep |-> sep, lead |-> lead,
                    content |-> lead \o Written(national, form, grouping, sep),
                    value |-> <<>>]

ExtractPhone ==
    /\ call.op = "extract_phone" /\ call.at = "called"
    /\ call' = [call EXCEPT !.at = "returned", !.value = extract_phone(call.content)]
    /\ ServiceFrame

SpecExtractPhone == InitExtractPhone /\ [][ExtractPhone]_vars

(* ----------------------- ProbableEmailGenerator ------------------------ *)
\* generate and _extract_domain on character sequences (the export above
\* uses them on the few websites of the run model).  A website is a scheme,
\* an optional www., a host, an optional port and a path; or it is None, the
\* empty string or "Not found".
NoneChars == <<NoneStr>>
NotFoundChars == <<"N", "o", "t", " ", "f", "o", "u", "n", "d">>
Schemes == {<<>>, <<"h", "t", "t", "p", "s", ":", "/", "/">>, <<"h", "t", "t", "p", ":", "/", "/">>, <<"H", "T", "T", "P", "S", ":", "/", "/">>}
Hosts == {
    <<"e", "x", "a", "m", "p", "l", "e", ".", "n", "l">>,
    <<"T", "e", "s", "t", ".", "C", "O", "M">>,
    <<"s", "h", "o", "p", ".", "e", "x", "a", "m", "p", "l", "e", ".", "n", "l">>,
    <<"l", "o", "c", "a", "l", "h", "o", "s", "t">>}
Ports == {<<>>, <<":", "8", "0", "8", "0">>}
Paths == {<<>>, <<"/">>, <<"/", "c", "o", "n", "t", "a", "c", "t">>}
Prefixes == {<<"i", "n", "f", "o">>, <<"c", "o", "n", "t", "a", "c", "t">>}
NoWebsites == {NoneChars, <<>>, NotFoundChars}

Url(scheme, with_www, host, port, path) ==
    scheme \o (IF with_www THEN www ELSE <<>>) \o host \o port \o path

\* mutant: the port is not cut off
ProbableEmailGenerator_extract_domain_KeepsPort(url) ==
    LET domain == split0(remove(remove(remove(lower(url), https), http), www), "/")
    IN  IF In(<<".">>, domain) THEN domain ELSE <<>>

\* ProbableEmailGenerator._extract_domain
ProbableEmailGenerator_extract_domain(url) ==
    LET domain == split0(split0(remove(remove(remove(lower(url), https), http), www),
                                "/"), ":")
    IN  IF In(<<".">>, domain) THEN domain ELSE <<>>

\* ProbableEmailGenerator.generate
ProbableEmailGenerator_generate(website, prefix) ==
    IF website = NoneChars \/ website = <<>> \/ website = NotFoundChars THEN <<>>
    ELSE LET domain == ProbableEmailGenerator_extract_domain(website)
         IN  IF domain = <<>> THEN <<>> ELSE prefix \o <<"@">> \o domain

InitGenerate ==
    /\ companies = <<[Name |-> "a", Website |-> "", Email |-> ""]>>
    /\ file = NoFile
    /\ InitService
    /\ pc = "idle"
    /\ \E prefix \in Prefixes :
        \/ \E scheme \in Schemes, with_www \in BOOLEAN, host \in Hosts, port \in Ports,
              path \in Paths :
                call = [op |-> "generate", at |-> "called", host |-> host,
                        website |-> Url(scheme, with_www, host, port, path),
                        prefix |-> prefix, value |-> <<>>]
        \/ \E website \in NoWebsites :
                call = [op |-> "generate", at |-> "called", host |-> <<>>,
                        website |-> website, prefix |-> prefix, value |-> <<>>]

Generate ==
    /\ call.op = "generate" /\ call.at = "called"
    /\ call' = [call EXCEPT !.at = "returned",
                            !.value = ProbableEmailGenerator_generate(call.website,
                                                                      call.prefix)]
    /\ ServiceFrame

SpecGenerate == InitGenerate /\ [][Generate]_vars

(* ------------------------------- pacing ------------------------------- *)
\* The skeleton of the three phase loops: processed = 0; for company in
\* pending: try ... except ...; processed += 1; if processed % 10 == 0:
\* time.sleep(config.RATE_LIMIT_DELAY).  The pending list of a phase is
\* 1..total; an iteration ends normally or in the except branch.
SubBatch == 10
RATE_LIMIT_DELAY == 2
LoopPhases == <<"website", "email", "phone">>
IterationOutcomes == {"marked", "caught"}

InitLoop ==
    /\ companies = <<[Name |-> "a", Website |-> "", Email |-> ""]>>
    /\ file = NoFile
    /\ InitService
    /\ pc = "idle"
    /\ call = [op |-> "loop", todo |-> LoopPhases, phase |-> "none", total |-> 0,
               processed |-> 0, caught |-> 0, handled |-> <<>>, pauses |-> <<>>]

\* mutant: processed is not set to 0 at the start of a phase
LoopBegin_KeepsCount(total) ==
    /\ call.op = "loop" /\ call.todo # <<>>
    /\ Len(call.handled) = call.total
    /\ call' = [call EXCEPT !.todo = Tail(@), !.phase = Head(call.todo),
                            !.total = total, !.caught = 0,
                            !.handled = <<>>, !.pauses = <<>>]
    /\ ServiceFrame

\* enrich_websites / enrich_emails / enrich_phones up to the loop
LoopBegin(total) ==
    /\ call.op = "loop" /\ call.todo # <<>>
    /\ Len(call.handled) = call.total
    /\ call' = [call EXCEPT !.todo = Tail(@), !.phase = Head(call.todo),
                            !.total = total, !.processed = 0, !.caught = 0,
                            !.handled = <<>>, !.pauses = <<>>]
    /\ ServiceFrame

\* one iteration of the loop, with its pause
LoopIteration(o) ==
    /\ call.op = "loop" /\ call.phase # "none"
    /\ Len(call.handled) < call.total
    /\ LET company == Len(call.handled) + 1
           processed == call.processed + 1
       IN  call' = [call EXCEPT
                        !.handled = Append(@, company),
                        !.caught = IF o = "caught" THEN @ + 1 ELSE @,
                        !.processed = processed,
                        !.pauses = IF processed % SubBatch = 0
                                   THEN Append(@, [after |-> company,
                                                   delay |-> RATE_LIMIT_DELAY])
                                   ELSE @]
    /\ ServiceFrame

NextLoop ==
    \/ \E total \in 0..MaxPending : LoopBegin(total)
    \/ \E o \in IterationOutcomes : LoopIteration(o)

SpecLoop == InitLoop /\ [][NextLoop]_vars

(* ------------------------------ claims -------------------------------- *)
CurName == companies[pending[idx]].Name
InLoop == pc \in {"resolve", "except", "mark"} \/ (pc = "save_dump" /\ ret \in {"mark", "next"})
Concrete(v) == Truthy(v) /\ v # NotFound
FoundCount(m) == Cardinality({n \in DOMAIN m : Concrete(m[n])})
NotFoundCount(m) == Cardinality({n \in DOMAIN m : ~Concrete(m[n])})

\* C1: when a run has completed and the next invocation is a run in the same
\* mode with no reset or termination in between, the second run never reaches
\* a resolver call, and its three mappings and six counters are those the
\* first run left.
C1_IdempotentResume ==
    (snap.valid /\ pc # "idle" /\ ~dry_run /\ mode = snap.mode) =>
        /\ pc \notin {"resolve", "except", "mark"}
        /\ state.processed_websites = snap.websites
        /\ state.processed_emails = snap.emails
        /\ state.processed_phones = snap.phones
        /\ state.stats = snap.stats

C1_Witness ==
    /\ snap.valid /\ pc = "exit" /\ ~dry_run /\ mode = snap.mode /\ mode = "full"
    /\ DOMAIN snap.websites = {"a", "b"}
    /\ snap.emails # EmptyMap
    /\ snap.phones # EmptyMap
    /\ snap.stats.websites_not_found > 0

\* C2: whenever no process is running (the last one ended or was terminated),
\* the state a new ProgressTracker loads from the progress file has, for
\* every phase, every record whose outcome was durably recorded earlier.
C2_CrashSafety ==
    pc = "idle" =>
        \A ph \in Phases : attempted[ph] \subseteq DOMAIN MapOf(ph, _load_state(file))

\* C3: whenever the tracker is at rest, a new ProgressTracker on the same
\* file loads the three mappings, the counters and the failures list of the
\* tracker in memory, so is_*_processed and get_* answer the same.
C3_PersistenceRoundTrip ==
    pc = "api" =>
        LET loaded == _load_state(file)
        IN  /\ loaded.processed_websites = state.processed_websites
            /\ loaded.processed_emails = state.processed_emails
            /\ loaded.processed_phones = state.processed_phones
            /\ loaded.stats = state.stats
            /\ loaded.failures = state.failures
            /\ \A n \in Names :
                /\ is_email_processed(loaded, n) = is_email_processed(state, n)
                /\ get_website(loaded, n) = get_website(state, n)
                /\ get_phone(loaded, n) = get_phone(state, n)

C3_Witness ==
    /\ pc = "api"
    /\ file.exists
    /\ state.failures # <<>>
    /\ DOMAIN state.processed_emails = {"a", "b"}
    /\ state.processed_websites # EmptyMap

\* C4: for each phase the stored found counter is the number of entries of
\* the mapping with a concrete value, and the stored not_found counter the
\* number of entries that are "Not found" or empty.
C4_CounterConsistency ==
    /\ state.stats.websites_found = FoundCount(state.processed_websites)
    /\ state.stats.websites_not_found = NotFoundCount(state.processed_websites)
    /\ state.stats.emails_found = FoundCount(state.processed_emails)
    /\ state.stats.emails_not_found = NotFoundCount(state.processed_emails)
    /\ state.stats.phones_found = FoundCount(state.processed_phones)
    /\ state.stats.phones_not_found = NotFoundCount(state.processed_phones)

\* C5: while a process is alive and no outcome is in flight, the keys of each
\* phase's mapping are exactly the records whose attempt of that phase was
\* completed and recorded.
C5_MappingMembership ==
    (pc # "idle" /\ ~(pc = "save_dump" /\ ret = "next")) =>
        \A ph \in Phases : DOMAIN MapOf(ph, state) = attempted[ph]

\* C6: whenever the loop of a phase is about to call the resolver for a
\* record, the progress file is a complete document holding the outcome of
\* every earlier record of the loop, and holds all the tracker has in memory.
C6_WriteBeforeNext ==
    pc = "resolve" =>
        /\ file.exists /\ file.kind = "json"
        /\ \A j \in 1..(idx - 1) :
            LET n == companies[pending[j]].Name
                durable == MapOf(phase, JsonLoad(file.doc))
            IN  n \in DOMAIN durable /\ durable[n] = MapOf(phase, state)[n]
        /\ JsonLoad(file.doc) = state

C6_Witness ==
    /\ pc = "resolve" /\ idx = 2 /\ phase = "email"
    /\ companies[pending[1]].Name # companies[pending[2]].Name
    /\ state.failures # <<>>

C8_NoRetry ==
    pc = "resolve" => CurName \notin DOMAIN MapOf(phase, state)

\* C9: an entry of a phase mapping is never changed or removed by a step of
\* the run, a run that follows a completed run loads every entry unchanged,
\* and a stored value is never empty or null.
C9_AttemptedTerminal ==
    /\ [][/\ (pc # "idle" /\ pc' # "idle") =>
                \A ph \in Phases : \A n \in DOMAIN MapOf(ph, state) :
                    /\ n \in DOMAIN MapOf(ph, state')
                    /\ MapOf(ph, state')[n] = MapOf(ph, state)[n]
          /\ (pc = "idle" /\ pc' # "idle" /\ snap.valid) =>
                /\ state'.processed_websites = snap.websites
                /\ state'.processed_emails = snap.emails
                /\ state'.processed_phones = snap.phones]_vars
    /\ [](\A ph \in Phases : \A n \in DOMAIN MapOf(ph, state) :
            MapOf(ph, state)[n] \notin {"", NoneStr})

\* C10: while the loop of the email or phone phase runs, every input row
\* without a website of its own has an entry in the website mapping; and
\* while the phone loop of a full run runs, no row is pending for email.
NoInputWebsite(i) ==
    LET w == companies[i].Website
    IN  ~Truthy(w) \/ w = NotFound \/ ~Truthy(Strip(w))

C10_PhaseOrder ==
    /\ (InLoop /\ phase \in {"email", "phone"}) =>
            \A i \in 1..Len(companies) :
                NoInputWebsite(i) => is_website_processed(state, companies[i].Name)
    /\ (InLoop /\ phase = "phone" /\ mode = "full") =>
            _get_companies_needing_email(companies, state) = <<>>

C10_Witness ==
    /\ pc = "resolve" /\ phase = "phone" /\ mode = "phones_only"
    /\ \E i \in 1..Len(companies) : companies[i].Website = ""
    /\ state.processed_websites # EmptyMap

\* C11: when enrich_emails computes its pending list, every input row with no
\* email of its own and no entry in the email mapping is in the list, whether
\* or not a website is known for it.
InSeq(i, sq) == \E j \in 1..Len(sq) : sq[j] = i
NoInputEmail(i) ==
    LET e == companies[i].Email
    IN  ~(Truthy(e) /\ Truthy(Strip(e)))
EmailPhaseBegins == pc = "phase_begin" /\ todo # <<>> /\ Head(todo) = "email"

C11_SearchNeedsNoWebsite ==
    [][EmailPhaseBegins =>
            \A i \in 1..Len(companies) :
                (NoInputEmail(i) /\ ~is_email_processed(state, companies[i].Name))
                    => InSeq(i, pending')]_vars

\* C12: when enrich_emails (resp. enrich_phones) computes its pending list,
\* every row whose website is known -- a usable cell of the input, or else a
\* concrete value in the website mapping -- and that has no entry in the email
\* (resp. phone) mapping is in the list, and the website the loop uses for it
\* is that known website.
TheKnownWebsite(i) ==
    IF NoInputWebsite(i) THEN get_website(state, companies[i].Name)
    ELSE companies[i].Website
LaterPhaseBegins == pc = "phase_begin" /\ todo # <<>> /\ Head(todo) \in {"email", "phone"}

C12_ResolvedWebsitesFeed ==
    [][LaterPhaseBegins =>
            \A i \in 1..Len(companies) :
                (/\ Concrete(TheKnownWebsite(i))
                 /\ companies[i].Name \notin DOMAIN MapOf(Head(todo), state)
                 /\ (Head(todo) = "email" => NoInputEmail(i)))
                    => /\ InSeq(i, pending')
                       /\ KnownWebsite(companies, state, i) = TheKnownWebsite(i)]_vars

\* C13: a ProgressTracker constructed on a progress file that is missing, is
\* not JSON, or is a JSON object lacking some key of a saved state, has the
\* default state; and the run that follows does not die of an error.
Unusable(f) == ~f.exists \/ f.kind # "json" \/ ~(DocKeys \subseteq DOMAIN f.doc)

C13_TolerantLoad ==
    /\ (pc = "idle" /\ Unusable(file)) => _load_state(file) = DefaultState
    /\ pc # "fatal"

\* C14: a call of ProgressTracker.reset, from any state of the tracker, leaves
\* no record processed in any phase, an empty failures list, all counters
\* zero and no progress file, so that a tracker constructed next has the
\* default state.
C14_Reset ==
    [][ApiReset =>
            /\ \A n \in Names :
                /\ ~is_website_processed(state', n)
                /\ ~is_email_processed(state', n)
                /\ ~is_phone_processed(state', n)
            /\ state'.failures = <<>>
            /\ \A k \in DOMAIN state'.stats : state'.stats[k] = 0
            /\ ~file'.exists
            /\ _load_state(file') = DefaultState]_vars

C14_Witness ==
    /\ pc = "api" /\ clock > 3
    /\ state = DefaultState
    /\ ~file.exists

\* C15: a call of mark_failure(name, error) makes the failures list one entry
\* longer, the new last entry having the keys company, error and timestamp
\* and the given name, keeps the earlier entries, and changes none of the
\* three mappings and none of the counters; a record may then be both marked
\* "Not found" and present in the failures list.
C15_MarkFailureFrame ==
    [][\A n \in Names :
            ApiMarkFailure(n) =>
                /\ Len(state'.failures) = Len(state.failures) + 1
                /\ SubSeq(state'.failures, 1, Len(state.failures)) = state.failures
                /\ DOMAIN state'.failures[Len(state'.failures)]
                        = {"company", "error", "timestamp"}
                /\ state'.failures[Len(state'.failures)].company = n
                /\ \A ph \in Phases : MapOf(ph, state') = MapOf(ph, state)
                /\ state'.stats = state.stats]_vars

C15_Witness ==
    /\ pc = "api"
    /\ Len(state.failures) = 2
    /\ state.failures[2].company = "a"
    /\ "a" \in DOMAIN state.processed_emails
    /\ state.processed_emails["a"] = NotFound
    /\ state.stats.emails_not_found = 1

\* C16: at whatever instant a reader opens the progress file, the file holds
\* a complete JSON document of a tracker state, never an empty or partly
\* written one.
C16_ReaderConsistency ==
    file.exists => (file.kind = "json" /\ DocKeys \subseteq DOMAIN file.doc)

\* C17: the output written by export_final_csv has one row per input row, in
\* input order; no Website, Email or Phone cell is "Not found"; the Website
\* cell is the input website when the row has one and else the website the
\* tracker holds, the Email cell is the input email when the row has one and
\* else the email the tracker holds, the Phone cell is the phone the tracker
\* holds ("Not found" and nothing both shown as the empty cell).
Shown(v) == IF Concrete(v) THEN v ELSE ""
JustExported == pc = "exit" /\ ~dry_run

C17_FinalExport ==
    JustExported =>
        /\ Len(exported) = Len(companies)
        /\ \A i \in 1..Len(companies) :
            LET name == companies[i].Name
                row == exported[i]
            IN  /\ row.Name = name
                /\ NotFound \notin {row.Website, row.Email, row.Phone}
                /\ row.Website = IF NoInputWebsite(i)
                                 THEN Shown(get_website(state, name))
                                 ELSE companies[i].Website
                /\ row.Email = IF NoInputEmail(i)
                               THEN Shown(get_email(state, name))
                               ELSE companies[i].Email
                /\ row.Phone = Shown(get_phone(state, name))

Progress(s) == <<s.processed_websites, s.processed_emails, s.processed_phones,
                 s.stats, s.failures>>

C19_DryRunFrame ==
    [][(dry_run \/ dry_run') =>
            /\ exported' = exported
            /\ dry_run' =>
                /\ pc' \in {"save_dump", "dispatch", "exit"}
                /\ Progress(state') = Progress(IF pc = "idle" THEN _load_state(file)
                                               ELSE state)
            /\ (dry_run /\ ~dry_run') => Progress(_load_state(file')) = Progress(state)]_vars

C19_Witness ==
    /\ pc = "exit" /\ dry_run /\ mode = "emails_only"
    /\ state.processed_websites # EmptyMap
    /\ _get_companies_needing_email(companies, state) # <<>>
    /\ exported # NoOutput

\* C20: a command line with two or more of the --*-only flags ends as a usage
\* error with no process left, and changes nothing: no tracker state was
\* loaded, the input rows, the progress file and the output are as they were,
\* and no phase or resolver position was reached.
C20_FlagsExclusive ==
    [][\A only_flags \in OnlyFlags :
            MainUsageError(only_flags) =>
                /\ exit_status' = "usage"
                /\ pc' = "idle"
                /\ state' = DefaultState
                /\ file' = file
                /\ exported' = exported
                /\ clock' = clock
                /\ UNCHANGED <<companies, todo, pending, attempted, snap>>]_vars

C20_Witness ==
    /\ exit_status = "usage"
    /\ pc = "idle"
    /\ file.exists /\ file.kind = "json"
    /\ JsonLoad(file.doc).processed_phones # EmptyMap
    /\ snap.valid

\* C21: when the input table has no Name column, the run ends with an error
\* before a resolver is called and before a mapping, a counter or the
\* failures list of the tracker is written.
C21_MissingColumnFailsFast ==
    /\ pc \notin {"phase_begin", "resolve", "except", "mark"}
    /\ Progress(state) = Progress(DefaultState)
    /\ (file.exists /\ file.kind = "json") =>
            Progress(JsonLoad(file.doc)) = Progress(DefaultState)

\* C22: whatever the token and whatever the outcome of the backend request
\* and of the direct request, a call of search_engine ends by returning a
\* list, which is empty when no request succeeded; it never ends by raising.
McpFinished(op) == call.op = op /\ call.at \in {"returned", "raised"}
NoPathSucceeded == call.backend \notin Responded /\ call.direct \notin Responded

C22_SearchNeverRaises ==
    McpFinished("search_engine") =>
        /\ call.at = "returned"
        /\ call.value \in Seq({ResponseValue("search_engine", "ok")[1]})
        /\ NoPathSucceeded => call.value = <<>>

\* C23: whatever the token and the outcomes of the requests, a call of
\* scrape_as_markdown ends by returning a text or None, never by raising, and
\* it returns None exactly when every request it made failed.
C23_ScrapeNeverRaises ==
    McpFinished("scrape_as_markdown") =>
        /\ call.at = "returned"
        /\ call.value \in {"text", "", NoneStr}
        /\ (call.value = NoneStr) <=> NoPathSucceeded

\* C24: in a finished call of either operation, the backend request was made
\* exactly if a token is configured, the direct request exactly if no token
\* is configured or the backend request failed, no direct request follows a
\* backend request that succeeded, and neither request was made twice.
Made(r) == \E j \in 1..Len(call.requests) : call.requests[j] = r
Times(r) == Cardinality({j \in 1..Len(call.requests) : call.requests[j] = r})

C24_StrategyOrder ==
    (McpFinished("search_engine") \/ McpFinished("scrape_as_markdown")) =>
        /\ Made("backend") <=> Truthy(call.api_token)
        /\ Made("direct") <=> (~Truthy(call.api_token)
                                \/ (Made("backend") /\ call.backend \notin Responded))
        /\ call.backend \in Responded => ~Made("direct")
        /\ Times("backend") <= 1 /\ Times("direct") <= 1

\* C25: when a transient network or backend error occurred while a record
\* was resolved in a phase, the record is recorded as "Not found" for that
\* phase and an entry for it is in the failures list of the tracker.
RecordJustMarked == pc = "save_dump" /\ ret = "next" /\ call.op = "chain"
HasFailure(s, name) == \E j \in 1..Len(s.failures) : s.failures[j].company = name

C25_TransientLogged ==
    (RecordJustMarked /\ call.transient) =>
        /\ Get(MapOf(phase, state), CurName) = NotFound
        /\ HasFailure(state, CurName)

\* C28: the strategies of a record are invoked in the order search,
\* homepage, /contact, /kontakt, /about, /over-ons in the email phase and
\* homepage, /contact, /kontakt, /about, /over-ons in the phone phase; none
\* is invoked after one has yielded a value; the scrapes of the email phase
\* are invoked only after the search found nothing and with a known website;
\* the recorded value is that of the first strategy that yielded one, else
\* "Not found".
EmailOrder == <<"search", "homepage", "/contact", "/kontakt", "/about", "/over-ons">>
PhoneOrder == <<"homepage", "/contact", "/kontakt", "/about", "/over-ons">>
ClaimedOrder == IF phase = "email" THEN EmailOrder
                ELSE IF phase = "phone" THEN PhoneOrder ELSE <<"search">>
InChain == call.op = "chain" /\ pc \in {"resolve", "mark", "except", "save_dump"}
                             /\ (pc = "save_dump" => ret \in {"mark", "next"})
                             /\ (pc = "resolve" => ~call.done)
YieldedAt == {j \in 1..Len(call.tried) : call.tried[j].yielded}
FirstYield == CHOOSE j \in YieldedAt : \A k \in YieldedAt : j <= k

Links(results) == [j \in 1..Len(results) |-> results[j].link]
Cleaned(all_urls) == [k \in 1..Len(all_urls) |-> all_urls[k][1]]
FirstOccurrence(urls, u) ==
    CHOOSE k \in 1..Len(urls) : urls[k] = u /\ \A h \in 1..(k - 1) : urls[h] # u
Returned(op) == call.op = op /\ call.at = "returned"

C26_ParsedResults ==
    Returned("_parse_google_results") =>
        LET links == Links(call.results)
            urls == Cleaned(call.all_urls)
            surviving == {u \in Range(urls) : ~SkipDomain(u)}
        IN  /\ Len(links) <= 10
            /\ \A i, j \in 1..Len(links) : i # j => links[i] # links[j]
            /\ \A j \in 1..Len(links) : ~SkipDomain(links[j])
            /\ Range(links) \subseteq surviving
            /\ Len(links) < 10 => Range(links) = surviving
            /\ \A i, j \in 1..Len(links) :
                    i < j => FirstOccurrence(urls, links[i]) < FirstOccurrence(urls, links[j])
            /\ \A u \in surviving : \A j \in 1..Len(links) :
                    FirstOccurrence(urls, u) < FirstOccurrence(urls, links[j])
                        => u \in Range(links)

C26_Witness ==
    /\ Returned("_parse_google_results")
    /\ Len(call.results) = 10
    /\ Len(call.all_urls) = 11
    /\ \E k \in 1..11 : SkipDomain(call.all_urls[k][1])

\* C27: _select_best_website returns the candidate that is not excluded and
\* has the maximum score (10 for each name token longer than 2 characters
\* found in the domain, plus 5 for .nl, else plus 3 for .com), the earliest
\* in result order among those of equal score, and the empty string when no
\* candidate is left; so a candidate with two matching tokens and .nl is
\* returned rather than one with one matching token and no bonus, in either
\* order of the two.
Kept(results) == {k \in 1..Len(results) : ~Excluded(results[k].link)}
TwoTokensNl == <<"h", "t", "t", "p", "s", ":", "/", "/", "w", "w", "w", ".", "a", "c", "m", "e", "b", "o", "u", "w", ".", "n", "l">>
OneTokenPlain == <<"h", "t", "t", "p", "s", ":", "/", "/", "a", "c", "m", "e", ".", "o", "r", "g", "/", "c", "o", "n", "t", "a", "c", "t">>
LongName == <<"A", "c", "m", "e", " ", "B", "o", "u", "w", " ", "b", "v">>

C27_BestWebsite ==
    Returned("_select_best_website") =>
        LET results == call.results
            score(k) == Score(results[k].link, call.company_name)
        IN  /\ Kept(results) = {} => call.value = <<>>
            /\ Kept(results) # {} =>
                    \E k \in Kept(results) :
                        /\ call.value = results[k].link
                        /\ \A j \in Kept(results) : score(j) <= score(k)
                        /\ \A j \in Kept(results) : j < k => score(j) < score(k)
            /\ (/\ call.company_name = LongName
                /\ Range([k \in 1..Len(results) |-> results[k].link])
                        = {TwoTokensNl, OneTokenPlain})
                    => call.value = TwoTokensNl
            /\ Score(TwoTokensNl, LongName) = 25
            /\ Score(OneTokenPlain, LongName) = 10

C27_Witness ==
    /\ Returned("_select_best_website")
    /\ call.company_name = LongName
    /\ Len(call.results) = 2
    /\ call.results[1].link = OneTokenPlain
    /\ call.results[2].link = TwoTokensNl
    /\ call.value = TwoTokensNl

\* C29: extract_emails returns an address on the target domain whenever a
\* valid one exists; within the preferred set (the addresses on the target
\* domain if there are any, else all valid ones) no address starts with an
\* earlier entry of the priority list than the address returned; from
\* john@x.nl and info@x.nl it returns info@x.nl, from john@x.nl and
\* contact@x.nl it returns contact@x.nl.
OnDomain(email, domain_base) == AfterAt(email) = domain_base
Rank(email) ==
    LET ks == {k \in 1..Len(PRIORITY_PREFIXES) : startswith(email, PRIORITY_PREFIXES[k])}
    IN  IF ks = {} THEN Len(PRIORITY_PREFIXES) + 1
        ELSE CHOOSE k \in ks : \A h \in ks : k <= h
john_x == <<"j", "o", "h", "n", "@", "x", ".", "n", "l">>
info_x == <<"i", "n", "f", "o", "@", "x", ".", "n", "l">>
contact_x == <<"c", "o", "n", "t", "a", "c", "t", "@", "x", ".", "n", "l">>

C29_EmailPreference ==
    call.op = "extract_emails" =>
        \A r \in 1..Len(call.returns) :
            LET email == call.returns[r]
                valid == Range(ValidEmails(call.emails))
                target == IF call.arg # <<>> THEN _get_domain_base(call.arg) ELSE <<>>
                on_target == {e \in valid : target # <<>> /\ OnDomain(e, target)}
                preferred == IF on_target # {} THEN on_target ELSE valid
            IN  /\ on_target # {} => email \in on_target
                /\ valid # {} => email \in preferred
                /\ \A e \in preferred : Rank(email) <= Rank(e)
                /\ valid = {john_x, info_x} => email = info_x
                /\ valid = {john_x, contact_x} => email = contact_x

\* C30: when several valid addresses remain and neither the domain rule nor
\* the priority-prefix rule (for the search snippets: the company-word rule)
\* selects one, the address returned is the one found first in the text or
\* the search hits; and two executions on the same input return the same
\* address.
NoRuleSelects ==
    LET valid == ValidEmails(call.emails)
    IN  IF call.op = "extract_emails"
        THEN /\ PriorityPick(valid) = <<>>
             /\ call.arg = <<>> \/ Filter(valid, _get_domain_base(call.arg)) = <<>>
        ELSE \A i \in 1..Len(valid) :
                \A word \in words(lower(call.arg)) :
                    Len(word) > 3 => ~In(word, AfterAt(valid[i]))

C30_DiscoveryOrder ==
    call.op \in {"extract_emails", "_extract_email_from_results"} =>
        /\ \A r, q \in 1..Len(call.returns) : call.returns[r] = call.returns[q]
        /\ (Cardinality(Range(ValidEmails(call.emails))) > 1 /\ NoRuleSelects) =>
                \A r \in 1..Len(call.returns) :
                    call.returns[r] = ValidEmails(call.emails)[1]

\* C31: extract_emails and _extract_email_from_results never return an
\* address that contains an excluded pattern; they return the empty string
\* exactly when no address of the text survives the filter (so also for an
\* empty text); and the search-snippet stage returns an address whose domain
\* contains a company-name word longer than 3 characters when a surviving
\* address has one.
Survives(email) == \A k \in 1..Len(EXCLUDE_PATTERNS) : ~In(EXCLUDE_PATTERNS[k], lower(email))
Survivors == {lower(call.emails[i]) : i \in {j \in 1..Len(call.emails) : Survives(call.emails[j])}}
OfCompany(email, company_name) ==
    \E word \in words(lower(company_name)) : Len(word) > 3 /\ In(word, AfterAt(email))
piet_acmebouw == <<"p", "i", "e", "t", "@", "a", "c", "m", "e", "b", "o", "u", "w", ".", "n", "l">>
noreply_x == <<"n", "o", "r", "e", "p", "l", "y", "@", "x", ".", "n", "l">>

WellFormedPhone(phone) ==
    /\ Len(phone) = 12
    /\ phone[1] = "0" /\ phone[4] = "-" /\ phone[8] = " "
    /\ \A i \in (1..12) \ {4, 8} : phone[i] \in Digit

C32_PhoneNormalization ==
    Returned("extract_phone") =>
        /\ call.value # <<>> => WellFormedPhone(call.value)
        /\ call.form = "international" =>
                call.value = extract_phone(call.lead \o Written(call.national, "national",
                                                                call.grouping, call.sep))
        /\ call.form = "no number" => call.value = <<>>

\* C33: generate returns the empty string for a website that is None, empty
\* or "Not found" and for one whose host has no dot, and otherwise the
\* prefix, '@' and the lower-cased host of the website, without its scheme,
\* www., port and path.
HasDot(host) == \E i \in 1..Len(host) : host[i] = "."

C33_ProbableEmail ==
    Returned("generate") =>
        /\ call.website \in NoWebsites => call.value = <<>>
        /\ (call.website \notin NoWebsites /\ ~HasDot(call.host)) => call.value = <<>>
        /\ (call.website \notin NoWebsites /\ HasDot(call.host)) =>
                call.value = call.prefix \o <<"@">> \o lower(call.host)

C33_Witness ==
    /\ Returned("generate")
    /\ call.website = <<"H", "T", "T", "P", "S", ":", "/", "/", "w", "w", "w", ".", "T", "e", "s", "t", ".", "C", "O", "M", ":", "8", "0", "8", "0", "/", "c", "o", "n", "t", "a", "c", "t">>
    /\ call.value = <<"c", "o", "n", "t", "a", "c", "t", "@", "t", "e", "s", "t", ".", "c", "o", "m">>

EmailPart(s) == <<s.processed_emails, s.stats.emails_found, s.stats.emails_not_found>>
PhonePart(s) == <<s.processed_phones, s.stats.phones_found, s.stats.phones_not_found>>
AsLoaded == IF pc = "idle" THEN _load_state(file) ELSE state
StepOfRun == (pc = "idle" /\ runs' = runs + 1) \/ pc # "idle"

C35_SinglePhaseFrame ==
    [][(StepOfRun /\ ~dry_run') =>
            /\ mode' \in {"websites_only", "phones_only"} =>
                    EmailPart(state') = EmailPart(AsLoaded)
            /\ mode' \in {"websites_only", "emails_only"} =>
                    PhonePart(state') = PhonePart(AsLoaded)]_vars

C35_Witness ==
    /\ pc = "exit" /\ ~dry_run /\ mode = "emails_only"
    /\ state.processed_emails # EmptyMap
    /\ state.processed_websites # EmptyMap
    /\ state.processed_phones # EmptyMap

\* C36: a full run that is not dry and whose remote calls all return comes
\* to its end, and at its end no record is pending for a website, an email
\* or a phone number: every row without an input website has a website
\* entry, and every row with a known website has a phone entry and, unless
\* it has an input email, an email entry.
FullRunStarted == pc = "dispatch" /\ mode = "full" /\ ~dry_run
FullRunEnded == pc = "exit" /\ mode = "full" /\ ~dry_run
HasInputEmail(i) == Truthy(companies[i].Email) /\ Truthy(Strip(companies[i].Email))
WorkCompleted ==
    /\ _get_companies_needing_website(companies, state) = <<>>
    /\ _get_companies_needing_email(companies, state) = <<>>
    /\ _get_companies_needing_phone(companies, state) = <<>>
    /\ \A i \in 1..Len(companies) :
        /\ NoInputWebsite(i) => companies[i].Name \in DOMAIN state.processed_websites
        /\ Concrete(KnownWebsite(companies, state, i)) =>
                /\ companies[i].Name \in DOMAIN state.processed_phones
                /\ ~HasInputEmail(i) => companies[i].Name \in DOMAIN state.processed_emails

HasInputWebsite(i) == ~NoInputWebsite(i)
PassedToResolver(ph, i) == InLoop /\ phase = ph /\ pending[idx] = i
InputValuesKept(i) ==
    /\ HasInputWebsite(i) =>
        /\ ~PassedToResolver("website", i)
        /\ ~is_website_processed(state, companies[i].Name)
        /\ JustExported => exported[i].Website = companies[i].Website
    /\ HasInputEmail(i) =>
        /\ ~PassedToResolver("email", i)
        /\ ~is_email_processed(state, companies[i].Name)
        /\ JustExported => exported[i].Email = companies[i].Email

C37_InputValuesKept == \A i \in 1..Len(companies) : InputValuesKept(i)

(* ------------------------ WebsiteEnricher.find_website ---------------- *)
\* One call of find_website(company_name, city) and the mark_website_processed
\* of enrich_websites that follows it. A search returns a list of results,
\* which may be empty, or an exception escapes it.
Cities == {<<>>, <<"Z", "w", "o", "l", "l", "e">>}
FoundLinks == {
    <<"h", "t", "t", "p", "s", ":", "/", "/", "w", "w", "w", ".", "a", "c", "m", "e", "b", "o", "u", "w", ".", "n", "l">>,
    <<"h", "t", "t", "p", "s", ":", "/", "/", "w", "w", "w", ".", "f", "a", "c", "e", "b", "o", "o", "k", ".", "c", "o", "m", "/", "a", "c", "m", "e", "b", "o", "u", "w">>,
    <<"h", "t", "t", "p", "s", ":", "/", "/", "r", "e", "l", "a", "x", ".", "c", "o", "m">>}
SearchOutcomes == {"returned", "raised"}
MaxFound == 2
SearchResults ==
    UNION {[1..n -> [link : FoundLinks, title : {""}, description : {""}]] : n \in 0..MaxFound}
official_website == <<" ", "o", "f", "f", "i", "c", "i", "a", "l", " ", "w", "e", "b", "s", "i", "t", "e">>
space == <<" ">>

FirstQuery(company_name, city) ==
    IF city # <<>> THEN company_name \o space \o city \o official_website
    ELSE company_name \o official_website
SecondQuery(company_name, city) ==
    IF city = <<>> THEN company_name ELSE company_name \o space \o city

\* mutant: a list whose results are all excluded is searched again too
NeedsSecondQuery_AllExcluded(results) ==
    \A k \in 1..Len(results) : Excluded(results[k].link)

\* if not results: after the first search
NeedsSecondQuery(results) == results = <<>>

InitFindWebsite ==
    /\ companies = <<[Name |-> "a", Website |-> "", Email |-> ""]>>
    /\ file = NoFile
    /\ InitService
    /\ pc = "idle"
    /\ \E company_name \in CompanyNames : \E city \in Cities :
            call = [op |-> "find_website", at |-> "called",
                    company_name |-> company_name, city |-> city,
                    searches |-> <<>>, results |-> <<>>, value |-> <<>>,
                    marked |-> NoneChars]

Searched(query, o, results) ==
    [query |-> query, outcome |-> o, results |-> IF o = "returned" THEN results ELSE <<>>]

\* results = self.mcp.search_engine(query), and the test that follows it
FirstSearch(o, results) ==
    /\ call.op = "find_website" /\ call.at = "called"
    /\ LET query == FirstQuery(call.company_name, call.city)
       IN  call' = [call EXCEPT
                !.searches = Append(@, Searched(query, o, results)),
                !.results = IF o = "returned" THEN results ELSE @,
                !.at = IF o = "raised" THEN "returned"
                       ELSE IF NeedsSecondQuery(results) THEN "retry" ELSE "select"]
    /\ ServiceFrame

\* the simpler query
SecondSearch(o, results) ==
    /\ call.op = "find_website" /\ call.at = "retry"
    /\ LET query == SecondQuery(call.company_name, call.city)
       IN  call' = [call EXCEPT
                !.searches = Append(@, Searched(query, o, results)),
                !.results = IF o = "returned" THEN results ELSE @,
                !.at = IF o = "raised" THEN "returned" ELSE "select"]
    /\ ServiceFrame

\* if results: return self._select_best_website(results, company_name); return ""
SelectOrNothing ==
    /\ call.op = "find_website" /\ call.at = "select"
    /\ call' = [call EXCEPT
            !.value = IF call.results # <<>>
                      THEN _select_best_website(call.results, call.company_name)
                      ELSE <<>>,
            !.at = "returned"]
    /\ ServiceFrame

\* enrich_websites: tracker.mark_website_processed(name, website or "Not found")
MarkWebsite ==
    /\ call.op = "find_website" /\ call.at = "returned"
    /\ call' = [call EXCEPT !.marked = IF call.value # <<>> THEN call.value ELSE NotFoundChars,
                            !.at = "marked"]
    /\ ServiceFrame

NextFindWebsite ==
    \/ \E o \in SearchOutcomes : \E results \in SearchResults : FirstSearch(o, results)
    \/ \E o \in SearchOutcomes : \E results \in SearchResults : SecondSearch(o, results)
    \/ SelectOrNothing
    \/ MarkWebsite

SpecFindWebsite == InitFindWebsite /\ [][NextFindWebsite]_vars

\* C38: find_website makes its second search, with the simpler query, exactly
\* when its first search returned an empty list, so it makes one or two
\* searches; when the first search returns results that are all on the
\* block-list, there is no second search, find_website returns the empty
\* string and the record is marked "Not found".
AllExcluded(results) ==
    results # <<>> /\ \A k \in 1..Len(results) : Excluded(results[k].link)
FirstReturnedEmpty ==
    call.searches[1].outcome = "returned" /\ call.searches[1].results = <<>>

C38_FallbackQuery ==
    call.op = "find_website" =>
        /\ Len(call.searches) <= 2
        /\ Len(call.searches) = 2 =>
            /\ FirstReturnedEmpty
            /\ call.searches[2].query = SecondQuery(call.company_name, call.city)
            /\ Len(call.searches[2].query) < Len(call.searches[1].query)
        /\ call.at \in {"select", "returned", "marked"} =>
            /\ Len(call.searches) >= 1
            /\ call.searches[1].query = FirstQuery(call.company_name, call.city)
            /\ FirstReturnedEmpty => Len(call.searches) = 2
            /\ AllExcluded(call.searches[1].results) =>
                /\ Len(call.searches) = 1
                /\ call.at \in {"returned", "marked"} => call.value = <<>>
                /\ call.at = "marked" => call.marked = NotFoundChars

C38_Witness ==
    /\ call.op = "find_website" /\ call.at = "marked"
    /\ Len(call.searches) = 2
    /\ call.city # <<>>
    /\ call.marked = <<"h", "t", "t", "p", "s", ":", "/", "/", "w", "w", "w", ".", "a", "c", "m", "e", "b", "o", "u", "w", ".", "n", "l">>

\* C39: the output is written only by a run that is not a dry run, at the end
\* of run(), when every phase of the run has gone through its whole pending
\* list, so that the pending list of each of these phases is empty; a
\* terminated process, a dry run and a reset invocation leave the output as it was.
SelectedPhases(m) ==
    CASE m = "websites_only" -> {"website"}
      [] m = "emails_only" -> {"website", "email"}
      [] m = "phones_only" -> {"website", "phone"}
      [] m = "full" -> {"website", "email", "phone"}
PhasesFinished ==
    /\ pc = "phase_begin" /\ todo = <<>>
    /\ \A ph \in SelectedPhases(mode) : Pending(ph, companies, state) = <<>>
ResetStep == pc = "idle" /\ pc' = "idle" /\ runs' # runs /\ exit_status' = "ok"
KillStep == kills' # kills
ExportWritten == pc # "exit" /\ pc' = "exit" /\ ~dry_run

C39_ExportOnCompletion ==
    [][/\ exported' # exported => ExportWritten
       /\ ExportWritten => (PhasesFinished /\ exported' = export_final_csv(companies, state))
       /\ (dry_run \/ KillStep \/ ResetStep) => exported' = exported]_vars

C39_Witness ==
    /\ JustExported /\ exported # NoOutput
    /\ mode = "emails_only"
    /\ kills = 1
    /\ Len(companies) = 2
    /\ attempted["website"] # {} /\ attempted["email"] # {}

\* C40: start_session sets started_at only when it is unset: the session that
\* starts on the progress file of an earlier session takes no new timestamp,
\* it keeps the started_at of that session, and no later step of the process
\* changes started_at; every save sets last_updated to a later time than the
\* one the tracker held; a reset leaves started_at and last_updated unset, in
\* memory and for the next tracker.
SessionStarts == pc = "idle" /\ pc' = "save_dump"
SaveBegins == pc \notin {"idle", "save_dump"} /\ pc' = "save_dump"
StartedAtKept ==
    /\ SessionStarts /\ file.exists =>
            /\ state'.started_at # None /\ state'.started_at < clock
            /\ file.kind = "json" => state'.started_at = file.doc.started_at
    /\ SessionStarts /\ ~file.exists => state'.started_at = clock
    /\ (pc # "idle" /\ pc' # "idle") => state'.started_at = state.started_at
LastUpdatedAdvances ==
    /\ SessionStarts => state'.last_updated > _load_state(file).last_updated
    /\ SaveBegins => state'.last_updated > state.last_updated
ResetUnsets ==
    ResetStep =>
        /\ state'.started_at = None /\ state'.last_updated = None
        /\ _load_state(file').started_at = None
        /\ _load_state(file').last_updated = None

C40_StartedAtSetOnce == [][StartedAtKept /\ LastUpdatedAdvances /\ ResetUnsets]_vars

====
